---- MODULE Spec2Model ----
(***************************************************************************)
(* A model of the credential store and the two-hop OAuth bridge of the     *)
(* TikTok / Looker Studio connector backend (src/server/store.js and       *)
(* src/server/index.js).                                                   *)
(*                                                                         *)
(* The module holds several specifications over one set of variables:      *)
(*   Spec        the cross-process lock (withLock, tryClearStaleLock) and   *)
(*               the store operations that run under it, one step per      *)
(*               system call, with several callers in two OS processes;    *)
(*   SpecAtomic  writeFileAtomic, one step per file-system call, with      *)
(*               failing calls, process death and power loss;              *)
(*   SpecRefresh getAccessTokenForSubject, one step per await, with two    *)
(*               requests in one server process;                           *)
(*   SpecRegistry  a StateStore on its own: save, consume, the sweep;      *)
(*   SpecBridge  the handlers of the OAuth bridge and their two stores.    *)
(*   SpecStore   the FileTokenStore called sequentially: save, get and     *)
(*               revoke on a fresh, a legacy or a tampered file;           *)
(*   SpecResource  the protected endpoints, one request at a time;         *)
(*   SpecWait      the lock again, for two callers that call               *)
(*                 listTokensSafe any number of times, under fairness of   *)
(*                 withLock's loop and of the clock;                       *)
(*   SpecSweep     an EphemeralRegistry with its interval timer, under     *)
(*                 fairness of the timer and of the clock;                 *)
(*   SpecValidity  the validity tests applied to chosen records;           *)
(*   SpecListing   listTokensSafe applied to chosen store files;           *)
(*   SpecOutage    the callback and the protected endpoints with store     *)
(*                 calls that may end with the lock timeout;               *)
(*   SpecStartup   the check of the store path before the server listens;  *)
(*   SpecPages     the connector's fetchPaginatedVideos;                   *)
(*   SpecRelease   the lock with store operations whose bodies may throw;  *)
(*   SpecGrant     the token endpoint beside the store and the endpoints;  *)
(*   SpecUpgrade   resource requests against a store file found on disk.   *)
(* Every specification leaves the variables of the others unchanged.       *)
(***************************************************************************)
EXTENDS Integers, Sequences, FiniteSets, TLC

VARIABLES
    now,        \* Date.now(), in ticks of 10 ms
    advances,   \* how many times the clock has been advanced
    alive,      \* alive[p]: the OS process with pid p exists
    running,    \* running[p]: the caller whose synchronous code process p executes
    lockFile,   \* the file at lockPath
    storeFile,  \* the file at filePath
    pc,         \* pc[c]: where caller c stands in withLock
    op,         \* op[c]: the store operation caller c performs
    start,      \* start[c]: withLock's `start`
    wakeAt,     \* wakeAt[c]: when the retry timer of c is due
    snap,       \* snap[c]: the `data` the body of c holds
    res,        \* res[c]: how the last operation of c ended
    opsDone,    \* store operations begun so far
    savedOk,    \* subjects whose save() completed successfully
    revokes,    \* number of revoke() calls begun
    created,    \* created[c]: c created the lock file in its current withLock call
    cleared,    \* cleared[c]: the lock file c last unlinked as stale in that call
    \* writeFileAtomic, one step per file-system call (SpecAtomic)
    target,     \* the file at filePath, as bytes on disk
    temp,       \* temp[w]: the file at the tempPath of writer w
    wpc,        \* wpc[w]: where the writeFileAtomic of writer w stands
    contents,   \* contents[w]: the `contents` writer w is writing
    writes,     \* writeFileAtomic calls so far
    \* getAccessTokenForSubject, one step per await (SpecRefresh)
    rpc,        \* rpc[r]: where request r stands in getAccessTokenForSubject
    reqSubject,    \* reqSubject[r]: the `subject` of request r
    reqTokenData,  \* reqTokenData[r]: what getConnectorToken returned to r
    updated,    \* updated[r]: the record r built from the refresh response
    sent,       \* sent[r]: the refresh_token r posted to the token endpoint
    result,     \* result[r]: what getAccessTokenForSubject returned
    minted,     \* token pairs the provider has issued so far
    lifecycle,  \* lifecycle[s]: what last happened to subject s: a Hop A exchange
                \* ("connected"), a refresh_token_expired signal, a revoke
    \* a StateStore on its own (SpecRegistry)
    registry,   \* this.store of the StateStore
    calls,      \* calls of save, consume and pruneExpiredEntries so far
    lastCall,   \* the last call: its name and its key
    ret,        \* what the last call returned
    returned,   \* the data of the entries consume has returned
    nextSweep,  \* when the interval timer of the registry fires next
    \* the OAuth bridge (SpecBridge)
    stateStore,     \* the map of stateStore
    authCodeStore,  \* the map of authCodeStore
    generated,  \* calls of generateRandomToken so far
    requests,   \* requests received so far
    req,        \* the last request received
    resp,       \* the last response sent
    pending,    \* the callbacks awaiting the provider: their state and its entry
    authorised, \* the states that let a token exchange go out, in order
    redeemed,   \* the authorization codes that yielded tokens, in order
    issued,     \* the backend tokens signed so far
    \* the FileTokenStore called sequentially (SpecStore)
    storeCall,  \* the last store call: its number, name, subject and key, and
                \* whether it called writeData
    storeReply, \* what the last store call returned
    saved,      \* saved[s]: the token data last saved for s and not revoked since
    \* the protected endpoints (SpecResource)
    hpc,        \* where the handler of the current request stands
    hreq,       \* the current request: endpoint, bearer token, query, arrival time
    hres,       \* the answer of the current request
    effects,    \* the store calls and provider calls of the current request
    handled,    \* requests to the protected endpoints so far
    \* functions applied to chosen inputs (SpecValidity, SpecListing)
    probe,      \* the last input of the validity tests and what they returned
    listing,    \* two store files and what listTokensSafe returned for each
    boot,       \* the server's startup: its phase and the configured paths
    pager       \* a call of the connector's fetchPaginatedVideos

lockVars == <<alive, running, lockFile, pc, op, start, wakeAt, snap, res, opsDone,
              savedOk, revokes, created, cleared>>

atomicVars == <<target, temp, wpc, contents, writes>>

refreshVars == <<rpc, reqSubject, reqTokenData, updated, sent, result, minted,
                 lifecycle>>

registryVars == <<registry, calls, lastCall, ret, returned>>

bridgeVars == <<stateStore, authCodeStore, generated, requests, req, resp, pending,
                authorised, redeemed, issued>>

storeVars == <<storeCall, storeReply, saved>>

resourceVars == <<hpc, hreq, hres, effects, handled>>

pureVars == <<probe, listing>>

timerVars == <<nextSweep>>
startupVars == <<boot>>
pagerVars == <<pager>>

\* what the actions of the lock model leave alone
notLock == <<atomicVars, refreshVars, registryVars, bridgeVars, storeVars, resourceVars,
            pureVars, timerVars, startupVars, pagerVars>>

vars == <<now, advances, storeFile, lockVars, atomicVars, refreshVars, registryVars,
          bridgeVars, storeVars, resourceVars, pureVars, timerVars, startupVars, pagerVars>>

(***************************************************************************)
(* Time. TLC's integers have 32 bits and 30 days of milliseconds do not    *)
(* fit, so the clock counts ticks of 10 ms: Date.now() is `now` ticks.     *)
(* Every duration of the program is a multiple of 10 ms.                   *)
(***************************************************************************)
Ms(n) == n \div (2 * 5)
Seconds(n) == n * Ms(1000)
Days(n) == n * 24 * 60 * 60 * Ms(1000)

(***************************************************************************)
(* Program constants                                                       *)
(***************************************************************************)
TOKEN_REFRESH_BUFFER_MS == Ms(5 * 60 * 1000)
TOKEN_STATE_TTL_MS == Ms(10 * 60 * 1000)
DEFAULT_PRUNE_DAYS == 30
LOCK_RETRY_DELAY_MS == Ms(50)
LOCK_TIMEOUT_MS == Ms(5000)

(***************************************************************************)
(* Bounds of the model                                                     *)
(***************************************************************************)
MaxAdvances == 2      \* clock advances in one behaviour
MaxOps == 2           \* store operations begun in one behaviour

Subjects == {"s1", "s2"}
Pids == {1, 2}
Callers == {"a", "b", "c"}
\* callers a and b are requests of the server process 1, c runs in process 2
ProcOf(c) == IF c = "c" THEN 2 ELSE 1
Crashable == {2}
EncryptionKey == "K"

(***************************************************************************)
(* JavaScript values of the token fields: a string, undefined, null or a   *)
(* ciphertext envelope {iv, tag, data}.                                    *)
(***************************************************************************)
Undefined == [t |-> "undef"]
Null == [t |-> "null"]
Str(s) == [t |-> "str", s |-> s]

\* !v of JavaScript, for the values above
Falsy(v) == v.t \in {"undef", "null"} \/ (v.t = "str" /\ v.s = "")

\* a || b
Or(a, b) == IF Falsy(a) THEN b ELSE a
NumOr(a, b) == IF a = 0 THEN b ELSE a
StrOr(a, b) == IF a = "" THEN b ELSE a

\* the store model writes a missing string field as "": value || null
Plain(v) == IF Falsy(v) THEN "" ELSE v.s

\* String(value)
StringOf(v) ==
    CASE v.t = "str" -> v.s
      [] v.t = "undef" -> "undefined"
      [] v.t = "null" -> "null"
      [] OTHER -> "[object Object]"

\* AES-256-GCM, symbolically: the ciphertext and the tag are bound to the key,
\* the nonce and the plaintext
\* an encryption whose tag does not cover the plaintext
encryptValueUntagged(value, key, iv) ==
    [t |-> "env", iv |-> iv,
     tag |-> <<key, iv, "">>,
     data |-> [k |-> key, pt |-> StringOf(value)]]

encryptValue(value, key, iv) ==
    [t |-> "env", iv |-> iv,
     tag |-> <<key, iv, StringOf(value)>>,
     data |-> [k |-> key, pt |-> StringOf(value)]]

\* a decryption that does not authenticate: any key, any tag
decryptValueUnchecked(payload, key) ==
    IF payload.t # "env" THEN Null ELSE Str(payload.data.pt)

decryptValue(payload, key) ==
    IF payload.t # "env" THEN Null
    ELSE IF payload.tag = <<key, payload.iv, payload.data.pt>> /\ payload.data.k = key
         THEN Str(payload.data.pt)
         ELSE Null

(***************************************************************************)
(* The store file: {version, tokens}. An entry carries every field either  *)
(* shape (legacy camelCase, current snake_case) may have; a missing token  *)
(* field is Undefined, a missing number 0, a missing string "".            *)
(***************************************************************************)
Absent == [t |-> "absent"]
NoFile == [t |-> "nofile"]

BlankEntry ==
    [t |-> "entry",
     accessToken |-> Undefined, refreshToken |-> Undefined,
     access_token |-> Undefined, refresh_token |-> Undefined,
     expiresAt |-> 0, expires_at |-> 0,
     refreshExpiresAt |-> 0, refresh_expires_at |-> 0,
     scope |-> "", scopes |-> "",
     createdAt |-> 0, created_at |-> 0,
     updatedAt |-> 0, updated_at |-> 0,
     openId |-> "", open_id |-> ""]

\* `${token.slice(0, 6)}...(${token.length})`
safeTokenLabel(token) ==
    IF token = "" THEN "unknown"
    ELSE SubSeq(token, 1, IF Len(token) < 6 THEN Len(token) ELSE 6)
            \o "...(" \o ToString(Len(token)) \o ")"

EmptyData == [t |-> "data", version |-> 1, tokens |-> [s \in Subjects |-> Absent]]

readData(file) == IF file = NoFile THEN EmptyData ELSE file

\* a test that takes every file for migrated
needsMigrationNever(data) == FALSE
needsMigration(data) ==
    \E s \in Subjects :
        /\ data.tokens[s] # Absent
        /\ (~Falsy(data.tokens[s].accessToken) \/ ~Falsy(data.tokens[s].refreshToken))

migrateEntry(entry, t, key, iv) ==
    LET accessToken == Or(entry.accessToken, entry.access_token)
        refreshToken == Or(entry.refreshToken, entry.refresh_token)
    IN IF entry = Absent \/ Falsy(accessToken) \/ Falsy(refreshToken) THEN Absent
       ELSE [BlankEntry EXCEPT
                !.access_token = encryptValue(accessToken, key, iv),
                !.refresh_token = encryptValue(refreshToken, key, iv),
                !.expires_at = NumOr(entry.expiresAt, NumOr(entry.expires_at, t)),
                !.refresh_expires_at =
                    NumOr(entry.refreshExpiresAt, NumOr(entry.refresh_expires_at, t)),
                !.scopes = StrOr(entry.scope, entry.scopes),
                !.created_at = NumOr(entry.createdAt, NumOr(entry.created_at, t)),
                !.updated_at = NumOr(entry.updatedAt, NumOr(entry.updated_at, t)),
                !.open_id = StrOr(entry.openId, entry.open_id)]

migrateData(data, t, key, iv) ==
    [t |-> "data", version |-> 1,
     tokens |-> [s \in Subjects |-> migrateEntry(data.tokens[s], t, key, iv)]]

\* a pruning that drops a record as soon as one of the two tests holds
pruneTokensEither(data, t, pruneAfterDays) ==
    LET cutoff == t - pruneAfterDays * 24 * 60 * 60 * Ms(1000)
        drop(entry) ==
            \/ entry.refresh_expires_at # 0 /\ entry.refresh_expires_at < t
            \/ entry.updated_at # 0 /\ entry.updated_at < cutoff
    IN [data EXCEPT !.tokens =
            [s \in Subjects |->
                IF data.tokens[s] # Absent /\ drop(data.tokens[s])
                THEN Absent ELSE data.tokens[s]]]

\* pruneTokens(data), with Date.now() and this.pruneAfterDays
pruneTokens(data, t, pruneAfterDays) ==
    LET cutoff == t - pruneAfterDays * 24 * 60 * 60 * Ms(1000)
        drop(entry) ==
            /\ entry.refresh_expires_at # 0 /\ entry.refresh_expires_at < t
            /\ entry.updated_at # 0 /\ entry.updated_at < cutoff
    IN [data EXCEPT !.tokens =
            [s \in Subjects |->
                IF data.tokens[s] # Absent /\ drop(data.tokens[s])
                THEN Absent ELSE data.tokens[s]]]

\* a save that stamps every record it writes as new
createdAtNow(existing, t) == t
\* const createdAt = existing ? existing.created_at : now
createdAtOf(existing, t) == IF existing # Absent THEN existing.created_at ELSE t

\* the body of saveConnectorToken between readData and writeData
saveConnectorTokenData(data0, connectorToken, tokenData, t, key, iv) ==
    LET data == IF needsMigration(data0) THEN migrateData(data0, t, key, iv) ELSE data0
        existing == data.tokens[connectorToken]
        createdAt == createdAtOf(existing, t)
        entry == [BlankEntry EXCEPT
                    !.access_token = encryptValue(tokenData.accessToken, key, iv),
                    !.refresh_token = encryptValue(tokenData.refreshToken, key, iv),
                    !.expires_at = tokenData.expiresAt,
                    !.refresh_expires_at = tokenData.refreshExpiresAt,
                    !.scopes = Plain(tokenData.scopes),
                    !.created_at = createdAt,
                    !.updated_at = t,
                    !.open_id = Plain(tokenData.openId)]
    IN pruneTokens([data EXCEPT !.tokens[connectorToken] = entry], t, DEFAULT_PRUNE_DAYS)

\* what getConnectorToken returns for the data it read (after migration)
getConnectorTokenResult(data, connectorToken, key) ==
    LET entry == data.tokens[connectorToken]
        accessToken == decryptValue(entry.access_token, key)
        refreshToken == decryptValue(entry.refresh_token, key)
    IN IF entry = Absent THEN Null
       ELSE IF Falsy(accessToken) \/ Falsy(refreshToken) THEN Null
       ELSE [t |-> "record",
             accessToken |-> accessToken.s,
             refreshToken |-> refreshToken.s,
             expiresAt |-> entry.expires_at,
             refreshExpiresAt |-> entry.refresh_expires_at,
             scopes |-> entry.scopes,
             createdAt |-> entry.created_at,
             updatedAt |-> entry.updated_at,
             openId |-> entry.open_id]

\* a revoke that empties the store
revokeConnectorTokenDataAll(data, connectorToken) ==
    [data EXCEPT !.tokens = [s \in Subjects |-> Absent]]

\* the data revokeConnectorToken writes when the entry existed
revokeConnectorTokenData(data, connectorToken) ==
    [data EXCEPT !.tokens[connectorToken] = Absent]

(***************************************************************************)
(* writeFileAtomic(filePath, contents). A file on disk is its bytes and    *)
(* how many of them have reached durable storage; a snapshot is written in *)
(* SnapshotLen write calls. Snapshot n is the n-th contents handed to      *)
(* writeFileAtomic. The writers are two processes: tempPath holds the pid, *)
(* so each writes a temporary file of its own.                             *)
(***************************************************************************)
MaxWrites == 3        \* writeFileAtomic calls in one behaviour
SnapshotLen == 2      \* write calls one snapshot takes

Writers == {"w1", "w2"}
NoBytes == [t |-> "nofile"]
File(bytes, durable) == [t |-> "file", bytes |-> bytes, durable |-> durable]
SnapshotOf(n) == [i \in 1..SnapshotLen |-> n]

\* a writer that opens filePath itself and writes in place
WritePathInPlace == "filePath"
\* the path writeFileAtomic opens and writes: tempPath
WritePath == "tempPath"

InitAtomic ==
    /\ target = NoBytes
    /\ temp = [w \in Writers |-> NoBytes]
    /\ wpc = [w \in Writers |-> "idle"]
    /\ contents = [w \in Writers |-> 0]
    /\ writes = 0

\* writeData calls writeFileAtomic; mkdir(dir, {recursive}) changes no file
AtomicBegin(w) ==
    /\ wpc[w] = "idle" /\ writes < MaxWrites
    /\ writes' = writes + 1
    /\ contents' = [contents EXCEPT ![w] = writes + 1]
    /\ temp' = [temp EXCEPT ![w] = NoBytes]
    /\ wpc' = [wpc EXCEPT ![w] = "open"]
    /\ UNCHANGED target

\* fs.promises.open(tempPath, 'w', 0o600): creates or truncates the file
AtomicOpen(w) ==
    /\ wpc[w] = "open"
    /\ IF WritePath = "tempPath"
       THEN temp' = [temp EXCEPT ![w] = File(<<>>, 0)] /\ target' = target
       ELSE target' = File(<<>>, 0) /\ temp' = temp
    /\ wpc' = [wpc EXCEPT ![w] = "write"]
    /\ UNCHANGED <<contents, writes>>

\* the file the handle of writer w is open on
Written(w) == IF WritePath = "tempPath" THEN temp[w] ELSE target

\* handle.writeFile(contents): one write call appends the next part
AtomicWrite(w) ==
    /\ wpc[w] = "write"
    /\ Written(w) # NoBytes
    /\ IF WritePath = "tempPath"
       THEN /\ temp' = [temp EXCEPT ![w].bytes = Append(@, contents[w])]
            /\ target' = target
       ELSE /\ target' = [target EXCEPT !.bytes = Append(@, contents[w])]
            /\ temp' = temp
    /\ wpc' = [wpc EXCEPT ![w] =
                IF Len(Written(w).bytes) + 1 >= SnapshotLen THEN "sync" ELSE "write"]
    /\ UNCHANGED <<contents, writes>>

\* handle.sync(), then the finally block's handle.close()
AtomicSync(w) ==
    /\ wpc[w] = "sync"
    /\ Written(w) # NoBytes
    /\ IF WritePath = "tempPath"
       THEN temp' = [temp EXCEPT ![w].durable = Len(temp[w].bytes)] /\ target' = target
       ELSE target' = [target EXCEPT !.durable = Len(target.bytes)] /\ temp' = temp
    /\ wpc' = [wpc EXCEPT ![w] = "rename"]
    /\ UNCHANGED <<contents, writes>>

\* fs.promises.rename(tempPath, filePath)
AtomicRename(w) ==
    /\ wpc[w] = "rename"
    /\ IF WritePath = "tempPath"
       THEN target' = temp[w] /\ temp' = [temp EXCEPT ![w] = NoBytes]
       ELSE target' = target /\ temp' = temp
    /\ wpc' = [wpc EXCEPT ![w] = "idle"]
    /\ UNCHANGED <<contents, writes>>

\* a call fails: open, writeFile or sync throw (the file is closed and the
\* error propagates, tempPath stays); a failed rename unlinks tempPath
AtomicFail(w) ==
    /\ wpc[w] \in {"open", "write", "sync", "rename"}
    /\ temp' = IF wpc[w] = "rename" THEN [temp EXCEPT ![w] = NoBytes] ELSE temp
    /\ wpc' = [wpc EXCEPT ![w] = "failed"]
    /\ UNCHANGED <<target, contents, writes>>

\* the caller has seen the error, or the process has been started again
AtomicRecover(w) ==
    /\ wpc[w] \in {"failed", "crashed"}
    /\ wpc' = [wpc EXCEPT ![w] = "idle"]
    /\ UNCHANGED <<target, temp, contents, writes>>

\* the process dies at any step: the files stay as they are
AtomicCrash(w) ==
    /\ wpc[w] \in {"open", "write", "sync", "rename"}
    /\ wpc' = [wpc EXCEPT ![w] = "crashed"]
    /\ UNCHANGED <<target, temp, contents, writes>>

\* what a file may hold after the machine lost power: the durable bytes and
\* any part of the rest
AfterPowerLoss(f) ==
    IF f = NoBytes THEN {NoBytes}
    ELSE {File(SubSeq(f.bytes, 1, n), f.durable) : n \in f.durable..Len(f.bytes)}

\* the machine loses power: every process dies
AtomicPowerLoss ==
    /\ \E w \in Writers : wpc[w] \in {"open", "write", "sync", "rename"}
    /\ target' \in AfterPowerLoss(target)
    /\ temp' \in [Writers -> UNION {AfterPowerLoss(temp[w]) : w \in Writers}]
    /\ \A w \in Writers : temp'[w] \in AfterPowerLoss(temp[w])
    /\ wpc' = [w \in Writers |-> IF wpc[w] \in {"idle", "failed"} THEN wpc[w]
                                 ELSE "crashed"]
    /\ UNCHANGED <<contents, writes>>

notAtomic == <<now, advances, storeFile, lockVars, refreshVars, registryVars,
               bridgeVars, storeVars, resourceVars, pureVars, timerVars, startupVars, pagerVars>>

NextAtomic ==
    \/ \E w \in Writers : AtomicBegin(w) /\ UNCHANGED notAtomic
    \/ \E w \in Writers : AtomicOpen(w) /\ UNCHANGED notAtomic
    \/ \E w \in Writers : AtomicWrite(w) /\ UNCHANGED notAtomic
    \/ \E w \in Writers : AtomicSync(w) /\ UNCHANGED notAtomic
    \/ \E w \in Writers : AtomicRename(w) /\ UNCHANGED notAtomic
    \/ \E w \in Writers : AtomicFail(w) /\ UNCHANGED notAtomic
    \/ \E w \in Writers : AtomicRecover(w) /\ UNCHANGED notAtomic
    \/ \E w \in Writers : AtomicCrash(w) /\ UNCHANGED notAtomic
    \/ AtomicPowerLoss /\ UNCHANGED notAtomic

(***************************************************************************)
(* The cross-process lock and the store operations under it.               *)
(*                                                                         *)
(* One step per system call: the calls of one process interleave with the  *)
(* calls of the other. Inside one process JavaScript runs a synchronous    *)
(* stretch of code to its next await without interleaving: running[p]      *)
(* names the caller that is inside such a stretch.                         *)
(***************************************************************************)
None == "none"
NoLock == [t |-> "nofile"]
LockIVs == {"n1"}
OpKinds == {"save", "get", "revoke", "list"}
NoOp == [kind |-> "none", subject |-> "none"]
Op(k, s) == [kind |-> k, subject |-> s]
\* the store operations the requests of caller c ask for (listSafe has no subject)
OpsOf(c) ==
    CASE c = "a" -> {Op("save", "s1"), Op("get", "s1")}
      [] c = "b" -> {Op("save", "s2"), Op("revoke", "s1"), Op("list", "none")}
      [] OTHER -> {Op("save", "s2"), Op("revoke", "s2")}

\* the record a Hop A exchange or a refresh hands to save() for subject s
TokenDataFor(s) ==
    [accessToken |-> Str(IF s = "s1" THEN "at1" ELSE "at2"),
     refreshToken |-> Str(IF s = "s1" THEN "rt1" ELSE "rt2"),
     expiresAt |-> Days(1),
     refreshExpiresAt |-> Days(60),
     scopes |-> Str("video.list"),
     openId |-> Str(s)]

\* a liveness probe that takes every answer of kill(pid, 0) for "alive"
isProcessAliveAlways(pid) == TRUE
\* process.kill(pid, 0): the process exists (also when the answer is EPERM)
isProcessAlive(pid) == alive[pid]

\* the synchronous stretch of caller c may run
MayRun(c) == running[ProcOf(c)] \in {None, c}
Idle(p) == running[p] = None

InitLock ==
    /\ alive = [p \in Pids |-> TRUE]
    /\ running = [p \in Pids |-> None]
    /\ lockFile = NoLock
    /\ pc = [c \in Callers |-> "idle"]
    /\ op = [c \in Callers |-> NoOp]
    /\ start = [c \in Callers |-> 0]
    /\ wakeAt = [c \in Callers |-> 0]
    /\ snap = [c \in Callers |-> EmptyData]
    /\ res = [c \in Callers |-> "none"]
    /\ opsDone = 0
    /\ savedOk = {}
    /\ revokes = 0
    /\ created = [c \in Callers |-> FALSE]
    /\ cleared = [c \in Callers |-> "no"]

\* a request handler calls a store operation: withLock takes `start`
Begin(c, kind, subject) ==
    /\ pc[c] = "idle" /\ opsDone < MaxOps /\ Idle(ProcOf(c))
    /\ pc' = [pc EXCEPT ![c] = "open"]
    /\ op' = [op EXCEPT ![c] = [kind |-> kind, subject |-> subject]]
    /\ start' = [start EXCEPT ![c] = now]
    /\ res' = [res EXCEPT ![c] = "none"]
    /\ opsDone' = opsDone + 1
    /\ revokes' = IF kind = "revoke" THEN revokes + 1 ELSE revokes
    /\ running' = [running EXCEPT ![ProcOf(c)] = c]
    /\ created' = [created EXCEPT ![c] = FALSE]
    /\ cleared' = [cleared EXCEPT ![c] = "no"]
    /\ UNCHANGED <<now, advances, storeFile, alive, lockFile, wakeAt, snap, savedOk>>
    /\ UNCHANGED notLock

\* fs.openSync(lockPath, 'wx'): creates the file, or fails with EEXIST
withLockOpen(c) ==
    /\ pc[c] = "open" /\ MayRun(c)
    /\ running' = [running EXCEPT ![ProcOf(c)] = c]
    /\ IF lockFile = NoLock
       THEN /\ lockFile' = [t |-> "file", owner |-> c, content |-> 0]
            /\ pc' = [pc EXCEPT ![c] = "writepid"]
            /\ created' = [created EXCEPT ![c] = TRUE]
       ELSE /\ lockFile' = lockFile
            /\ pc' = [pc EXCEPT ![c] = "stale_read"]
            /\ created' = created
    /\ UNCHANGED <<now, advances, storeFile, alive, op, start, wakeAt, snap, res,
                   opsDone, savedOk, revokes, cleared>>
    /\ UNCHANGED notLock

\* fs.writeSync(fd, pid), fs.fsyncSync(fd): into the file c created, which may
\* have been unlinked since; then fn() runs to its first await
withLockWritePid(c) ==
    /\ pc[c] = "writepid"
    /\ lockFile' = IF lockFile # NoLock /\ lockFile.owner = c
                   THEN [lockFile EXCEPT !.content = ProcOf(c)] ELSE lockFile
    /\ pc' = [pc EXCEPT ![c] = "body_read"]
    /\ running' = [running EXCEPT ![ProcOf(c)] = None]
    /\ UNCHANGED <<now, advances, storeFile, alive, op, start, wakeAt, snap, res,
                   opsDone, savedOk, revokes, created, cleared>>
    /\ UNCHANGED notLock

\* a withLock that gives up waiting and runs the body without the lock
NotClearedProceeds(c) ==
    /\ IF now - start[c] > LOCK_TIMEOUT_MS
       THEN /\ pc' = [pc EXCEPT ![c] = "body_read"]
            /\ wakeAt' = wakeAt
       ELSE /\ pc' = [pc EXCEPT ![c] = "sleep"]
            /\ wakeAt' = [wakeAt EXCEPT ![c] = now + LOCK_RETRY_DELAY_MS]
    /\ UNCHANGED <<res, start, op>>
    /\ running' = [running EXCEPT ![ProcOf(c)] = None]

\* tryClearStaleLock returned false: withLock throws once LOCK_TIMEOUT_MS have
\* passed since `start`, and otherwise sleeps LOCK_RETRY_DELAY_MS
NotCleared(c) ==
    /\ IF now - start[c] > LOCK_TIMEOUT_MS
       THEN /\ pc' = [pc EXCEPT ![c] = "idle"]
            /\ res' = [res EXCEPT ![c] = "lock_timeout"]
            /\ wakeAt' = wakeAt
            /\ start' = [start EXCEPT ![c] = 0]
            /\ op' = [op EXCEPT ![c] = NoOp]
       ELSE /\ pc' = [pc EXCEPT ![c] = "sleep"]
            /\ res' = res
            /\ wakeAt' = [wakeAt EXCEPT ![c] = now + LOCK_RETRY_DELAY_MS]
            /\ start' = start
            /\ op' = op
    /\ running' = [running EXCEPT ![ProcOf(c)] = None]

\* the pid the lock file names, as parseInt reads it: 0 stands for NaN
LockPid == IF lockFile = NoLock THEN 0 ELSE lockFile.content

\* tryClearStaleLock, its first try block: readFileSync, parseInt, isProcessAlive
tryClearStaleLockRead(c) ==
    /\ pc[c] = "stale_read"
    /\ IF LockPid # 0 /\ isProcessAlive(LockPid)
       THEN NotCleared(c)
       ELSE /\ pc' = [pc EXCEPT ![c] = "stale_unlink"]
            /\ UNCHANGED <<running, start, wakeAt, res, op>>
    /\ UNCHANGED <<now, advances, storeFile, alive, lockFile, snap, opsDone,
                   savedOk, revokes, created, cleared>>
    /\ UNCHANGED notLock

\* what the lock file is when c unlinks it: not yet holding a pid, naming a dead
\* process (after c waited longer than the timeout or not), or naming a live one
KindOfLock(c) ==
    CASE LockPid = 0 -> "empty"
      [] alive[LockPid] -> "live"
      [] now - start[c] > LOCK_TIMEOUT_MS -> "stale_late"
      [] OTHER -> "stale"

\* tryClearStaleLock, its second try block: unlinkSync(lockPath)
tryClearStaleLockUnlink(c) ==
    /\ pc[c] = "stale_unlink"
    /\ IF lockFile # NoLock
       THEN /\ lockFile' = NoLock
            /\ pc' = [pc EXCEPT ![c] = "open"]
            /\ cleared' = [cleared EXCEPT ![c] = KindOfLock(c)]
            /\ UNCHANGED <<running, start, wakeAt, res, op>>
       ELSE /\ lockFile' = lockFile
            /\ cleared' = cleared
            /\ NotCleared(c)
    /\ UNCHANGED <<now, advances, storeFile, alive, snap, opsDone, savedOk, revokes, created>>
    /\ UNCHANGED notLock

\* the retry timer fires
withLockWake(c) ==
    /\ pc[c] = "sleep" /\ now >= wakeAt[c] /\ Idle(ProcOf(c))
    /\ pc' = [pc EXCEPT ![c] = "open"]
    /\ wakeAt' = [wakeAt EXCEPT ![c] = 0]
    /\ running' = [running EXCEPT ![ProcOf(c)] = c]
    /\ UNCHANGED <<now, advances, storeFile, alive, lockFile, op, start, snap,
                   res, opsDone, savedOk, revokes, created, cleared>>
    /\ UNCHANGED notLock

\* the body's readData, and the synchronous code up to its next await
BodyRead(c) ==
    /\ pc[c] = "body_read" /\ Idle(ProcOf(c))
    /\ LET data == readData(storeFile)
           k == op[c].kind
           s == op[c].subject
       IN \E iv \in LockIVs :
          CASE k = "save" ->
                 /\ snap' = [snap EXCEPT ![c] =
                        saveConnectorTokenData(data, s, TokenDataFor(s), now,
                                               EncryptionKey, iv)]
                 /\ pc' = [pc EXCEPT ![c] = "body_write"]
            [] k = "list" ->
                 /\ snap' = snap
                 /\ pc' = [pc EXCEPT ![c] = "release"]
            [] OTHER ->
                 IF k = "revoke" /\ data.tokens[s] # Absent
                 THEN /\ snap' = [snap EXCEPT ![c] = revokeConnectorTokenData(data, s)]
                      /\ pc' = [pc EXCEPT ![c] = "body_write"]
                 ELSE /\ snap' = snap
                      /\ pc' = [pc EXCEPT ![c] = "release"]
    /\ UNCHANGED <<now, advances, storeFile, alive, running, lockFile, op, start,
                   wakeAt, res, opsDone, savedOk, revokes, created, cleared>>
    /\ UNCHANGED notLock

\* writeData(data): writeFileAtomic's rename puts the snapshot in place
BodyWrite(c) ==
    /\ pc[c] = "body_write" /\ Idle(ProcOf(c))
    /\ storeFile' = snap[c]
    /\ snap' = [snap EXCEPT ![c] = EmptyData]
    /\ pc' = [pc EXCEPT ![c] = "release"]
    /\ UNCHANGED <<now, advances, alive, running, lockFile, op, start, wakeAt,
                   res, opsDone, savedOk, revokes, created, cleared>>
    /\ UNCHANGED notLock

\* the body throws: readData (a read error, a JSON parse error) or writeData
\* (writeFileAtomic failed and left the store file as it was)
BodyFail(c) ==
    /\ pc[c] \in {"body_read", "body_write"} /\ Idle(ProcOf(c))
    /\ pc' = [pc EXCEPT ![c] = "release"]
    /\ res' = [res EXCEPT ![c] = "throwing"]
    /\ snap' = [snap EXCEPT ![c] = EmptyData]
    /\ UNCHANGED <<now, advances, storeFile, alive, running, lockFile, op, start,
                   wakeAt, opsDone, savedOk, revokes, created, cleared>>
    /\ UNCHANGED notLock

\* a withLock that unlinks the lock file after fn() returned, with no finally
withLockReleaseOnReturn(c) ==
    /\ pc[c] = "release" /\ Idle(ProcOf(c))
    /\ lockFile' = IF res[c] = "throwing" THEN lockFile ELSE NoLock
    /\ pc' = [pc EXCEPT ![c] = "idle"]
    /\ res' = [res EXCEPT ![c] = IF res[c] = "throwing" THEN "error" ELSE "ok"]
    /\ start' = [start EXCEPT ![c] = 0]
    /\ savedOk' = IF op[c].kind = "save" /\ res[c] # "throwing"
                  THEN savedOk \cup {op[c].subject} ELSE savedOk
    /\ op' = [op EXCEPT ![c] = NoOp]
    /\ UNCHANGED <<now, advances, storeFile, alive, running, wakeAt, snap, opsDone,
                   revokes, created, cleared>>
    /\ UNCHANGED notLock

\* withLock's finally: closeSync(fd), unlinkSync(lockPath); then the result
\* of fn() is returned or its error thrown
withLockRelease(c) ==
    /\ pc[c] = "release" /\ Idle(ProcOf(c))
    /\ lockFile' = NoLock
    /\ pc' = [pc EXCEPT ![c] = "idle"]
    /\ res' = [res EXCEPT ![c] = IF res[c] = "throwing" THEN "error" ELSE "ok"]
    /\ start' = [start EXCEPT ![c] = 0]
    /\ savedOk' = IF op[c].kind = "save" /\ res[c] # "throwing"
                  THEN savedOk \cup {op[c].subject} ELSE savedOk
    /\ op' = [op EXCEPT ![c] = NoOp]
    /\ UNCHANGED <<now, advances, storeFile, alive, running, wakeAt, snap, opsDone,
                   revokes, created, cleared>>
    /\ UNCHANGED notLock

\* the OS process p dies: its callers stop where they are, its lock file stays
Crash(p) ==
    /\ alive[p] /\ p \in Crashable
    /\ \E c \in Callers : ProcOf(c) = p /\ pc[c] # "idle"
    /\ alive' = [alive EXCEPT ![p] = FALSE]
    /\ pc' = [c \in Callers |-> IF ProcOf(c) = p THEN "dead" ELSE pc[c]]
    /\ running' = [running EXCEPT ![p] = None]
    /\ UNCHANGED <<now, advances, storeFile, lockFile, op, start, wakeAt, snap, res,
                   opsDone, savedOk, revokes, created, cleared>>
    /\ UNCHANGED notLock

\* time passes while a caller waits for its retry timer
Tick(d) ==
    /\ advances < MaxAdvances
    /\ \E c \in Callers : pc[c] = "sleep"
    /\ now' = now + d
    /\ advances' = advances + 1
    /\ UNCHANGED <<storeFile, lockVars>>
    /\ UNCHANGED notLock

(***************************************************************************)
(* getAccessTokenForSubject (src/server/index.js), one step per await.     *)
(* The requests run in one server process, where withLock does serialise   *)
(* the store operations: getConnectorToken and saveConnectorToken are one  *)
(* step each. The provider's answers are any the token endpoint can give.  *)
(***************************************************************************)
MaxMinted == 3        \* token pairs the provider issues in one behaviour

Requests == {"r1", "r2"}
NoRecord == [t |-> "none"]
\* expires_in and refresh_expires_in of a token response, in seconds
ExpiresIn == {3600}
RefreshExpiresIn == {2 * 3600}

TokenResponse(n, openId, scope, expiresIn, refreshExpiresIn) ==
    [access_token |-> Str("at" \o ToString(n)),
     refresh_token |-> Str("rt" \o ToString(n)),
     expires_in |-> expiresIn, refresh_expires_in |-> refreshExpiresIn,
     open_id |-> openId, scope |-> scope]

buildTokenRecord(tokenResponse, t) ==
    [accessToken |-> tokenResponse.access_token,
     refreshToken |-> tokenResponse.refresh_token,
     expiresAt |-> t + tokenResponse.expires_in * Ms(1000),
     refreshExpiresAt |-> t + tokenResponse.refresh_expires_in * Ms(1000),
     openId |-> Or(tokenResponse.open_id, Null),
     scopes |-> Or(tokenResponse.scope, Null)]

\* what getAccessTokenForSubject returns: { accessToken } or { error, status }
NoResult == [error |-> "", status |-> 0, accessToken |-> ""]
\* the message of the error withLock throws when the lock is not acquired
LockTimeoutError == "Token store lock timeout."
Returned(accessToken) == [error |-> "", status |-> 0, accessToken |-> accessToken]
Failed(error) == [error |-> error, status |-> 401, accessToken |-> ""]

\* a validity test that never lets the stored access token through
isAccessTokenValidNever(td, t) == FALSE
isAccessTokenValid(td, t) == td.expiresAt # 0 /\ t < td.expiresAt - TOKEN_REFRESH_BUFFER_MS
\* a refresh token that still counts at the start of the buffer
isRefreshTokenValidInclusive(td, t) ==
    td.refreshExpiresAt # 0 /\ t <= td.refreshExpiresAt - TOKEN_REFRESH_BUFFER_MS
isRefreshTokenValid(td, t) ==
    td.refreshExpiresAt # 0 /\ t < td.refreshExpiresAt - TOKEN_REFRESH_BUFFER_MS

InitRefresh ==
    /\ rpc = [r \in Requests |-> "idle"]
    /\ reqSubject = [r \in Requests |-> None]
    /\ reqTokenData = [r \in Requests |-> NoRecord]
    /\ updated = [r \in Requests |-> NoRecord]
    /\ sent = [r \in Requests |-> None]
    /\ result = [r \in Requests |-> NoResult]
    /\ minted = 0
    /\ lifecycle = [s \in Subjects |-> "none"]

\* Hop A completes for subject s: the callback exchanges the code, builds the
\* record and saves it under the subject the provider returned
\* (subjects are interchangeable: s1 is the first of the two to connect)
Connect(s) ==
    /\ minted < MaxMinted
    /\ s = "s2" => lifecycle["s1"] # "none"
    /\ \E e \in ExpiresIn, re \in RefreshExpiresIn, iv \in LockIVs :
         storeFile' = saveConnectorTokenData(readData(storeFile), s,
                          buildTokenRecord(
                              TokenResponse(minted + 1, Str(s), Str("video.list"), e, re),
                              now),
                          now, EncryptionKey, iv)
    /\ minted' = minted + 1
    /\ lifecycle' = [lifecycle EXCEPT ![s] = "connected"]
    /\ UNCHANGED <<now, advances, rpc, reqSubject, reqTokenData, updated, sent, result>>

\* POST /api/connector/revoke for subject s: revokeConnectorToken
Revoke(s) ==
    /\ \E iv \in LockIVs :
         LET data0 == readData(storeFile)
             data == IF needsMigration(data0)
                     THEN migrateData(data0, now, EncryptionKey, iv) ELSE data0
             existed == data.tokens[s] # Absent
         IN /\ storeFile' = IF existed THEN revokeConnectorTokenData(data, s)
                            ELSE IF needsMigration(data0) THEN data ELSE storeFile
            /\ lifecycle' = IF existed THEN [lifecycle EXCEPT ![s] = "revoked"]
                            ELSE lifecycle
    /\ storeFile' # storeFile
    /\ UNCHANGED <<now, advances, rpc, reqSubject, reqTokenData, updated, sent, result,
                   minted>>

\* a resource request for subject s arrives: await tokenStore.getConnectorToken
\* (requests are interchangeable: r2 is the later of the two to arrive)
ResolveGet(r, s) ==
    /\ rpc[r] = "idle"
    /\ r = "r2" => rpc["r1"] # "idle"
    /\ reqSubject' = [reqSubject EXCEPT ![r] = s]
    /\ \E iv \in LockIVs :
         LET data0 == readData(storeFile)
             data == IF needsMigration(data0)
                     THEN migrateData(data0, now, EncryptionKey, iv) ELSE data0
         IN /\ storeFile' = IF needsMigration(data0) THEN data ELSE storeFile
            /\ reqTokenData' = [reqTokenData EXCEPT ![r] =
                                getConnectorTokenResult(data, s, EncryptionKey)]
    /\ rpc' = [rpc EXCEPT ![r] = "got"]
    /\ UNCHANGED <<now, advances, updated, sent, result, minted, lifecycle>>

\* the code after that await, up to the fetch of refreshAccessToken
ResolveCheck(r) ==
    /\ rpc[r] = "got"
    /\ LET td == reqTokenData[r]
       IN IF td = Null
          THEN /\ result' = [result EXCEPT ![r] = Failed("invalid_subject")]
               /\ rpc' = [rpc EXCEPT ![r] = "done"]
               /\ UNCHANGED <<sent, lifecycle>>
          ELSE IF isAccessTokenValid(td, now)
          THEN /\ result' = [result EXCEPT ![r] = Returned(td.accessToken)]
               /\ rpc' = [rpc EXCEPT ![r] = "done"]
               /\ UNCHANGED <<sent, lifecycle>>
          ELSE IF ~isRefreshTokenValid(td, now)
          THEN /\ result' = [result EXCEPT ![r] = Failed("refresh_token_expired")]
               /\ rpc' = [rpc EXCEPT ![r] = "done"] /\ sent' = sent
               /\ lifecycle' = IF /\ lifecycle[reqSubject[r]] = "connected"
                                  /\ td = getConnectorTokenResult(readData(storeFile),
                                                                  reqSubject[r], EncryptionKey)
                               THEN [lifecycle EXCEPT ![reqSubject[r]] = "expired"]
                               ELSE lifecycle
          ELSE /\ sent' = [sent EXCEPT ![r] = td.refreshToken]
               /\ rpc' = [rpc EXCEPT ![r] = "refreshing"]
               /\ UNCHANGED <<result, lifecycle>>
    /\ UNCHANGED <<now, advances, storeFile, reqSubject, reqTokenData, updated, minted>>

\* the token endpoint answers with a new token pair: buildTokenRecord
ResolveRefreshed(r) ==
    /\ rpc[r] = "refreshing" /\ minted < MaxMinted
    /\ \E e \in ExpiresIn, re \in RefreshExpiresIn :
         updated' = [updated EXCEPT ![r] =
             buildTokenRecord(
                 TokenResponse(minted + 1, Str(reqSubject[r]), Str("video.list"), e, re),
                 now)]
    /\ minted' = minted + 1
    /\ rpc' = [rpc EXCEPT ![r] = "save"]
    /\ UNCHANGED <<now, advances, storeFile, reqSubject, reqTokenData, sent, result,
                   lifecycle>>

\* a refusal after which the handler drops the record it could not refresh
ResolveRefusedDropping(r) ==
    /\ rpc[r] = "refreshing"
    /\ result' = [result EXCEPT ![r] = Failed("token_refresh_failed")]
    /\ rpc' = [rpc EXCEPT ![r] = "done"]
    /\ storeFile' = revokeConnectorTokenData(readData(storeFile), reqSubject[r])
    /\ UNCHANGED <<now, advances, reqSubject, reqTokenData, updated, sent,
                   minted, lifecycle>>

\* the token endpoint refuses: !refreshResult.ok
ResolveRefused(r) ==
    /\ rpc[r] = "refreshing"
    /\ result' = [result EXCEPT ![r] = Failed("token_refresh_failed")]
    /\ rpc' = [rpc EXCEPT ![r] = "done"]
    /\ UNCHANGED <<now, advances, storeFile, reqSubject, reqTokenData, updated, sent,
                   minted, lifecycle>>

\* await tokenStore.saveConnectorToken(subject, updated); return
ResolveSave(r) ==
    /\ rpc[r] = "save"
    /\ \E iv \in LockIVs :
         storeFile' = saveConnectorTokenData(readData(storeFile), reqSubject[r],
                                             updated[r], now, EncryptionKey, iv)
    /\ result' = [result EXCEPT ![r] = Returned(Plain(updated[r].accessToken))]
    /\ rpc' = [rpc EXCEPT ![r] = "done"]
    /\ UNCHANGED <<now, advances, reqSubject, reqTokenData, updated, sent, minted,
                   lifecycle>>

\* time passes (the clock is read only once a record is on file)
RefreshTick(d) ==
    /\ advances < MaxAdvances /\ storeFile # NoFile
    /\ now' = now + d
    /\ advances' = advances + 1
    /\ UNCHANGED <<storeFile, refreshVars>>

notRefresh == <<lockVars, atomicVars, registryVars, bridgeVars, storeVars,
               resourceVars, pureVars, timerVars, startupVars, pagerVars>>

NextRefresh ==
    \/ \E s \in Subjects : Connect(s) /\ UNCHANGED notRefresh
    \/ \E s \in Subjects : Revoke(s) /\ UNCHANGED notRefresh
    \/ \E r \in Requests, s \in Subjects : ResolveGet(r, s) /\ UNCHANGED notRefresh
    \/ \E r \in Requests : ResolveCheck(r) /\ UNCHANGED notRefresh
    \/ \E r \in Requests : ResolveRefreshed(r) /\ UNCHANGED notRefresh
    \/ \E r \in Requests : ResolveRefused(r) /\ UNCHANGED notRefresh
    \/ \E r \in Requests : ResolveSave(r) /\ UNCHANGED notRefresh
    \/ \E d \in {Seconds(3600)} : RefreshTick(d) /\ UNCHANGED notRefresh

(***************************************************************************)
(* StateStore (src/server/store.js): an in-memory map with a time to       *)
(* live. A store is a function from keys to an entry or Absent.            *)
(***************************************************************************)
MaxCalls == 4         \* save, consume and sweep calls in one behaviour

RegKeys == {"k1", "k2"}

\* this.store.set(state, { ...data, expiresAt: Date.now() + this.ttlMs })
save(store, state, data, t, ttlMs) ==
    [store EXCEPT ![state] = [data |-> data, expiresAt |-> t + ttlMs]]

\* a consume that leaves the entry in the map
consumeKeeping(store, state, t) ==
    LET entry == store[state]
    IN [entry |-> IF entry = Absent \/ entry.expiresAt <= t THEN Null ELSE entry,
        store |-> store]
\* consume(state): what it returns, and the map it leaves
consume(store, state, t) ==
    LET entry == store[state]
    IN [entry |-> IF entry = Absent \/ entry.expiresAt <= t THEN Null ELSE entry,
        store |-> [store EXCEPT ![state] = Absent]]

\* a sweep that keeps an entry at the instant of its expiry
pruneExpiredEntriesLate(store, t) ==
    [k \in DOMAIN store |->
        IF store[k] # Absent /\ store[k].expiresAt < t THEN Absent ELSE store[k]]
pruneExpiredEntries(store, t) ==
    [k \in DOMAIN store |->
        IF store[k] # Absent /\ store[k].expiresAt <= t THEN Absent ELSE store[k]]

\* cleanupIntervalMs || Math.max(Math.floor(ttlMs / 2), 60 * 1000)
cleanupInterval(ttlMs) == IF ttlMs \div 2 > Ms(60 * 1000) THEN ttlMs \div 2 ELSE Ms(60 * 1000)

InitRegistry ==
    /\ registry = [k \in RegKeys |-> Absent]
    /\ nextSweep = Ms(10) + cleanupInterval(TOKEN_STATE_TTL_MS)
    /\ calls = 0
    /\ lastCall = [op |-> "none", key |-> "none"]
    /\ ret = Undefined
    /\ returned = {}

\* save(key, data); the data names the call, so that every save is told apart
RegistrySave(k) ==
    /\ calls < MaxCalls
    /\ registry' = save(registry, k, [id |-> calls + 1, key |-> k], now,
                        TOKEN_STATE_TTL_MS)
    /\ calls' = calls + 1
    /\ lastCall' = [op |-> "save", key |-> k]
    /\ ret' = Undefined
    /\ UNCHANGED <<now, advances, returned>>

RegistryConsume(k) ==
    /\ calls < MaxCalls
    /\ LET c == consume(registry, k, now)
       IN /\ registry' = c.store
          /\ ret' = c.entry
          /\ returned' = IF c.entry = Null THEN returned
                         ELSE returned \cup {c.entry.data}
    /\ calls' = calls + 1
    /\ lastCall' = [op |-> "consume", key |-> k]
    /\ UNCHANGED <<now, advances>>

\* the interval timer fires
RegistrySweep ==
    /\ calls < MaxCalls
    /\ registry' = pruneExpiredEntries(registry, now)
    /\ calls' = calls + 1
    /\ lastCall' = [op |-> "sweep", key |-> "none"]
    /\ ret' = Undefined
    /\ UNCHANGED <<now, advances, returned>>

\* time passes
RegistryTick(d) ==
    /\ advances < MaxAdvances
    /\ now' = now + d
    /\ advances' = advances + 1
    /\ UNCHANGED registryVars

notRegistry == <<storeFile, lockVars, atomicVars, refreshVars, bridgeVars, storeVars,
                resourceVars, pureVars, timerVars, startupVars, pagerVars>>

NextRegistry ==
    \/ \E k \in RegKeys : RegistrySave(k) /\ UNCHANGED notRegistry
    \/ \E k \in RegKeys : RegistryConsume(k) /\ UNCHANGED notRegistry
    \/ RegistrySweep /\ UNCHANGED notRegistry
    \/ \E d \in {Ms(10), TOKEN_STATE_TTL_MS - Ms(10), TOKEN_STATE_TTL_MS} :
          RegistryTick(d) /\ UNCHANGED notRegistry

\* the interval timer fires on time: setInterval(() => this.pruneExpiredEntries(),
\* interval)
TimerSweep ==
    /\ now = nextSweep
    /\ registry' = pruneExpiredEntries(registry, now)
    /\ nextSweep' = nextSweep + cleanupInterval(TOKEN_STATE_TTL_MS)
    /\ UNCHANGED <<now, advances, calls, lastCall, ret, returned>>

\* time passes, up to the next firing of the timer; the clock stops when the
\* map has been empty for MaxAdvances steps
TimerTick(d) ==
    /\ d > 0 /\ now + d <= nextSweep
    /\ (\E k \in RegKeys : registry[k] # Absent) \/ advances < MaxAdvances
    /\ now' = now + d
    /\ advances' = IF \E k \in RegKeys : registry[k] # Absent THEN advances
                   ELSE advances + 1
    /\ UNCHANGED <<registryVars, nextSweep>>

notSweep == <<storeFile, lockVars, atomicVars, refreshVars, bridgeVars, storeVars,
             resourceVars, pureVars, startupVars, pagerVars>>

NextSweep ==
    \/ \E k \in RegKeys : RegistrySave(k) /\ UNCHANGED <<notSweep, nextSweep>>
    \/ \E k \in RegKeys : RegistryConsume(k) /\ UNCHANGED <<notSweep, nextSweep>>
    \/ TimerSweep /\ UNCHANGED notSweep
    \/ \E d \in {cleanupInterval(TOKEN_STATE_TTL_MS) \div 2, nextSweep - now} :
          TimerTick(d) /\ UNCHANGED notSweep

(***************************************************************************)
(* The OAuth bridge (src/server/index.js): /auth/tiktok/start,             *)
(* /oauth/authorize, /auth/tiktok/callback and /oauth/token. A random      *)
(* token of generateRandomToken is the number of the call that made it: no *)
(* two calls return the same token. Token 0 is a string no call returned.  *)
(* A JSON Web Token is its payload, its expiry in seconds and the secret   *)
(* it is signed with.                                                      *)
(***************************************************************************)
MaxRequests == 4      \* requests the server receives in one behaviour
MaxBridgeTicks == 1   \* clock advances in one behaviour of the bridge

AUTH_CODE_TTL_MS == Ms(10 * 60 * 1000)
BACKEND_TOKEN_TTL_SECONDS == 60 * 60
REFRESH_TOKEN_TTL_SECONDS == 30 * 24 * 60 * 60     \* expiresIn: '30d'
BACKEND_JWT_SECRET == "backend-jwt-secret"
LOOKER_CLIENT_ID == "looker-studio-connector"
LOOKER_CLIENT_SECRET == "unused"

RandomTokens == 0..MaxRequests
Missing == 0 - 1
NoToken == [t |-> "notoken"]

\* Math.floor(Date.now() / 1000)
Sec(t) == t \div Ms(1000)

\* jwt.sign(payload, secret, { expiresIn })
sign(sub, scopes, typ, secret, expiresIn, t) ==
    [t |-> "jwt", sub |-> sub, scopes |-> scopes, typ |-> typ,
     exp |-> Sec(t) + expiresIn, secret |-> secret]

\* jwt.verify(token, secret) returns the payload and does not throw
verify(token, secret, t) == token.secret = secret /\ Sec(t) < token.exp

\* a refresh grant that takes a token of any type
TypeIsAny(payload) == TRUE
\* payload.typ === 'refresh'
TypeIsRefresh(payload) == payload.typ = "refresh"

\* an access token that has expired when it is issued
issueBackendTokensLapsed(sub, scopes, refreshTokenOverride, t) ==
    [access_token |-> sign(sub, Or(scopes, Null), "access", BACKEND_JWT_SECRET, 0, t),
     refresh_token |->
        IF refreshTokenOverride # NoToken THEN refreshTokenOverride
        ELSE sign(sub, Or(scopes, Null), "refresh", BACKEND_JWT_SECRET,
                  REFRESH_TOKEN_TTL_SECONDS, t),
     expires_in |-> BACKEND_TOKEN_TTL_SECONDS]
issueBackendTokens(sub, scopes, refreshTokenOverride, t) ==
    [access_token |-> sign(sub, Or(scopes, Null), "access", BACKEND_JWT_SECRET,
                           BACKEND_TOKEN_TTL_SECONDS, t),
     refresh_token |->
        IF refreshTokenOverride # NoToken THEN refreshTokenOverride
        ELSE sign(sub, Or(scopes, Null), "refresh", BACKEND_JWT_SECRET,
                  REFRESH_TOKEN_TTL_SECONDS, t),
     expires_in |-> BACKEND_TOKEN_TTL_SECONDS]

\* a URL: what new URL(redirectUri) parses it to
\* (path: the first ten characters of the pathname)
RedirectUris ==
    {[protocol |-> "https:", hostname |-> "script.google.com", path |-> "/macros/s/"],
     [protocol |-> "https:", hostname |-> "evil.example", path |-> "/macros/s/"],
     [protocol |-> "http:", hostname |-> "script.google.com", path |-> "/macros/s/"],
     [protocol |-> "https:", hostname |-> "script.google.com", path |-> "/a/macros/"]}
NoUri == [protocol |-> "", hostname |-> "", path |-> ""]

\* buildAuthUrl(state): the provider's authorize page
TIKTOK_AUTH_URL == [protocol |-> "https:", hostname |-> "www.tiktok.com", path |-> "/v2/auth/a"]

\* an allow-list that lets every URI through
isAllowedRedirectAny(redirectUri) == TRUE
isAllowedRedirect(redirectUri) ==
    /\ redirectUri.protocol = "https:"
    /\ redirectUri.hostname = "script.google.com"
    /\ redirectUri.path = "/macros/s/"

\* tokens a client may present to the refresh grant that the server never signed
Forged ==
    {[t |-> "jwt", sub |-> Str("s1"), scopes |-> Null, typ |-> "refresh",
      exp |-> Sec(Days(60)), secret |-> "attacker-secret"]}

\* what the provider's token endpoint may answer to the exchange of a code
ExchangeAnswers ==
    {[ok |-> FALSE, open_id |-> Undefined, scope |-> Undefined],
     [ok |-> TRUE, open_id |-> Undefined, scope |-> Undefined]}
    \cup {[ok |-> TRUE, open_id |-> Str("s1"), scope |-> Str("video.list")],
          [ok |-> TRUE, open_id |-> Str("s2"), scope |-> Undefined]}

NoRequest ==
    [handler |-> "none", error |-> "", code |-> "", state |-> Missing,
     client_id |-> "", client_secret |-> "", grant_type |-> "", authCode |-> Missing,
     refresh_token |-> NoToken, response_type |-> "", redirect_uri |-> NoUri,
     looker_state |-> ""]
NoResponse ==
    [status |-> 0, body |-> "", access_token |-> NoToken, refresh_token |-> NoToken,
     expires_in |-> 0, code |-> Missing, state |-> "", location |-> NoUri,
     thrown |-> ""]
Response(status, body) == [NoResponse EXCEPT !.status = status, !.body = body]

InitBridge ==
    /\ stateStore = [k \in RandomTokens |-> Absent]
    /\ authCodeStore = [k \in RandomTokens |-> Absent]
    /\ generated = 0
    /\ requests = 0
    /\ req = NoRequest
    /\ resp = NoResponse
    /\ pending = {}
    /\ authorised = <<>>
    /\ redeemed = <<>>
    /\ issued = {}

\* the queries of the requests to /oauth/authorize: a good one, and one for
\* each check that refuses
Query(state, redirectUri, responseType, clientId) ==
    [state |-> state, redirect_uri |-> redirectUri, response_type |-> responseType,
     client_id |-> clientId]
GoodUri == [protocol |-> "https:", hostname |-> "script.google.com", path |-> "/macros/s/"]
AuthorizeQueries ==
    {Query("ls2", GoodUri, "code", LOOKER_CLIENT_ID),
     Query("", GoodUri, "code", LOOKER_CLIENT_ID),
     Query("ls", GoodUri, "token", LOOKER_CLIENT_ID),
     Query("ls", GoodUri, "code", "other-client")}
    \cup {Query("ls", u, "code", LOOKER_CLIENT_ID) : u \in RedirectUris \ {GoodUri}}

\* the queries of the requests to /auth/tiktok/callback: every state there is
\* to present with a code, the provider's error, a missing code, a missing state
CallbackQueries ==
    {[error |-> "", code |-> "c", state |-> k] : k \in 0..generated}
    \cup {[error |-> "access_denied", code |-> "", state |-> generated],
          [error |-> "", code |-> "", state |-> generated],
          [error |-> "", code |-> "c", state |-> Missing]}

\* GET /auth/tiktok/start
Start ==
    /\ requests < MaxRequests
    /\ requests' = requests + 1
    /\ req' = [NoRequest EXCEPT !.handler = "start"]
    /\ generated' = generated + 1
    /\ stateStore' = save(stateStore, generated + 1,
                          [flow |-> "direct", redirectUri |-> NoUri, lookerState |-> ""],
                          now, TOKEN_STATE_TTL_MS)
    /\ resp' = [Response(302, "provider authorize") EXCEPT !.location = TIKTOK_AUTH_URL]
    /\ UNCHANGED <<now, advances, storeFile, authCodeStore, pending, authorised,
                   redeemed, issued>>

\* GET /oauth/authorize?state&redirect_uri&response_type&client_id
Authorize(state, redirectUri, responseType, clientId) ==
    /\ requests < MaxRequests
    /\ requests' = requests + 1
    /\ req' = [NoRequest EXCEPT !.handler = "authorize", !.client_id = clientId,
                                !.response_type = responseType,
                                !.redirect_uri = redirectUri,
                                !.looker_state = state]
    /\ IF state = "" \/ redirectUri = NoUri \/ responseType = "" \/ clientId = ""
       THEN /\ resp' = Response(400, "Missing OAuth parameters")
            /\ UNCHANGED <<generated, stateStore>>
       ELSE IF responseType # "code"
       THEN /\ resp' = Response(400, "Invalid response type")
            /\ UNCHANGED <<generated, stateStore>>
       ELSE IF clientId # LOOKER_CLIENT_ID
       THEN /\ resp' = Response(400, "Invalid client")
            /\ UNCHANGED <<generated, stateStore>>
       ELSE IF ~isAllowedRedirect(redirectUri)
       THEN /\ resp' = Response(400, "Invalid redirect URI")
            /\ UNCHANGED <<generated, stateStore>>
       ELSE /\ generated' = generated + 1
            /\ stateStore' = save(stateStore, generated + 1,
                                  [flow |-> "oauth", redirectUri |-> redirectUri,
                                   lookerState |-> state],
                                  now, TOKEN_STATE_TTL_MS)
            /\ resp' = [Response(302, "provider authorize") EXCEPT
                           !.location = TIKTOK_AUTH_URL]
    /\ UNCHANGED <<now, advances, storeFile, authCodeStore, pending, authorised,
                   redeemed, issued>>

\* a callback that goes on whatever consume returned
RejectsNone(stateEntry) == FALSE
\* if (!stateEntry)
Rejects(stateEntry) == stateEntry = Null

\* GET /auth/tiktok/callback?code&state&error, up to the fetch of
\* exchangeCodeForToken
Callback(error, code, state) ==
    /\ requests < MaxRequests
    /\ requests' = requests + 1
    /\ req' = [NoRequest EXCEPT !.handler = "callback", !.error = error,
                                !.code = code, !.state = state]
    /\ IF error # ""
       THEN /\ resp' = Response(400, "Authorization Error")
            /\ UNCHANGED <<stateStore, pending, authorised>>
       ELSE IF code = "" \/ state = Missing
       THEN /\ resp' = Response(400, "Missing code or state")
            /\ UNCHANGED <<stateStore, pending, authorised>>
       ELSE LET c == consume(stateStore, state, now)
            IN /\ stateStore' = c.store
               /\ IF Rejects(c.entry)
                  THEN /\ resp' = Response(400, "Invalid state")
                       /\ UNCHANGED <<pending, authorised>>
                  ELSE /\ pending' = pending \cup {[state |-> state, entry |-> c.entry]}
                       /\ authorised' = Append(authorised, state)
                       /\ resp' = NoResponse
    /\ UNCHANGED <<now, advances, storeFile, authCodeStore, generated, redeemed, issued>>

\* a code that is bound to no subject and no scopes
buildAuthorizationCodeUnbound(store, code, subject, scopes, t) ==
    save(store, code, [subject |-> Null, scopes |-> Null], t, AUTH_CODE_TTL_MS)
\* buildAuthorizationCode(subject, scopes), with the code generateRandomToken
\* returned: the authCodeStore it leaves
buildAuthorizationCode(store, code, subject, scopes, t) ==
    save(store, code, [subject |-> subject, scopes |-> scopes], t, AUTH_CODE_TTL_MS)

\* the provider answers the exchange of a callback in flight: the rest of the
\* handler, with saveConnectorToken and buildAuthorizationCode; the save
\* throws when withLock times out
CallbackExchanged(callback, answer, lockTimeout) ==
    /\ callback \in pending
    /\ pending' = pending \ {callback}
    /\ LET stateEntry == callback.entry
           record == buildTokenRecord(
                        TokenResponse(1, answer.open_id, answer.scope, 3600, 24 * 3600),
                        now)
       IN IF ~answer.ok
          THEN /\ resp' = Response(400, "Token Exchange Failed")
               /\ UNCHANGED <<storeFile, authCodeStore, generated>>
          ELSE IF Falsy(record.openId)
          THEN /\ resp' = Response(400, "Missing open_id")
               /\ UNCHANGED <<storeFile, authCodeStore, generated>>
          ELSE IF lockTimeout
          THEN \* saveConnectorToken throws, the catch answers 500
               /\ resp' = [Response(500, "Unexpected Error") EXCEPT
                              !.thrown = LockTimeoutError]
               /\ UNCHANGED <<storeFile, authCodeStore, generated>>
          ELSE /\ \E iv \in LockIVs :
                    storeFile' = saveConnectorTokenData(readData(storeFile),
                                     record.openId.s, record, now, EncryptionKey, iv)
               /\ IF stateEntry = Null
                  THEN \* stateEntry.flow throws, the catch answers 500
                       /\ resp' = Response(500, "Unexpected Error")
                       /\ UNCHANGED <<authCodeStore, generated>>
                  ELSE IF stateEntry.data.flow = "oauth"
                  THEN /\ generated' = generated + 1
                       /\ authCodeStore' =
                            buildAuthorizationCode(authCodeStore, generated + 1,
                                                   record.openId, record.scopes, now)
                       /\ resp' = [Response(302, "redirect") EXCEPT
                                      !.location = stateEntry.data.redirectUri,
                                      !.code = generated + 1,
                                      !.state = stateEntry.data.lookerState]
                  ELSE /\ resp' = Response(200, "Success")
                       /\ UNCHANGED <<authCodeStore, generated>>
    /\ UNCHANGED <<now, advances, stateStore, requests, req, authorised, redeemed,
                   issued>>

\* a grant that reads the code and leaves it in the store
readAuthorizationCode(store, code, t) == consumeKeeping(store, code, t)
consumeAuthorizationCodeSpent(store, code, t) ==
    [consume(store, code, t) EXCEPT !.entry = Null]
consumeAuthorizationCode(store, code, t) == consume(store, code, t)

\* the bodies of the token requests: the configured client with every code
\* and token there is to present, and two clients that are refused
Body(clientId, clientSecret, code, refreshToken) ==
    [client_id |-> clientId, client_secret |-> clientSecret, code |-> code,
     refresh_token |-> refreshToken]
CodeGrantBodies ==
    {Body(LOOKER_CLIENT_ID, LOOKER_CLIENT_SECRET, code, NoToken) :
        code \in {Missing} \cup 0..generated}
    \cup {Body("other-client", LOOKER_CLIENT_SECRET, generated, NoToken),
          Body(LOOKER_CLIENT_ID, "wrong-secret", generated, NoToken)}
RefreshGrantBodies ==
    {Body(LOOKER_CLIENT_ID, LOOKER_CLIENT_SECRET, Missing, refreshToken) :
        refreshToken \in {NoToken} \cup issued \cup Forged}
Error(error) == Response(400, error)

\* POST /oauth/token
Token(clientId, clientSecret, grantType, code, refreshToken) ==
    /\ requests < MaxRequests
    /\ requests' = requests + 1
    /\ req' = [NoRequest EXCEPT !.handler = "token", !.client_id = clientId,
                                !.client_secret = clientSecret,
                                !.grant_type = grantType, !.authCode = code,
                                !.refresh_token = refreshToken]
    /\ IF clientId # "" /\ clientId # LOOKER_CLIENT_ID
       THEN /\ resp' = Error("invalid_client")
            /\ UNCHANGED <<authCodeStore, redeemed, issued>>
       ELSE IF clientSecret # "" /\ clientSecret # LOOKER_CLIENT_SECRET
       THEN /\ resp' = Error("invalid_client")
            /\ UNCHANGED <<authCodeStore, redeemed, issued>>
       ELSE IF grantType = "authorization_code"
       THEN IF code = Missing
            THEN /\ resp' = Error("invalid_request")
                 /\ UNCHANGED <<authCodeStore, redeemed, issued>>
            ELSE LET c == consumeAuthorizationCode(authCodeStore, code, now)
                     tokens == issueBackendTokens(c.entry.data.subject,
                                                  c.entry.data.scopes, NoToken, now)
                 IN /\ authCodeStore' = c.store
                    /\ IF c.entry = Null
                       THEN /\ resp' = Error("invalid_grant")
                            /\ UNCHANGED <<redeemed, issued>>
                       ELSE /\ resp' = [Response(200, "tokens") EXCEPT
                                          !.access_token = tokens.access_token,
                                          !.refresh_token = tokens.refresh_token,
                                          !.expires_in = tokens.expires_in]
                            /\ redeemed' = Append(redeemed, code)
                            /\ issued' = issued \cup {tokens.access_token,
                                                      tokens.refresh_token}
       ELSE IF grantType = "refresh_token"
       THEN IF refreshToken = NoToken
            THEN /\ resp' = Error("invalid_request")
                 /\ UNCHANGED <<authCodeStore, redeemed, issued>>
            ELSE IF ~verify(refreshToken, BACKEND_JWT_SECRET, now)
            THEN /\ resp' = Error("invalid_grant")
                 /\ UNCHANGED <<authCodeStore, redeemed, issued>>
            ELSE IF ~TypeIsRefresh(refreshToken)
            THEN /\ resp' = Error("invalid_grant")
                 /\ UNCHANGED <<authCodeStore, redeemed, issued>>
            ELSE LET tokens == issueBackendTokens(refreshToken.sub, refreshToken.scopes,
                                                  refreshToken, now)
                 IN /\ resp' = [Response(200, "tokens") EXCEPT
                                   !.access_token = tokens.access_token,
                                   !.refresh_token = tokens.refresh_token,
                                   !.expires_in = tokens.expires_in]
                    /\ issued' = issued \cup {tokens.access_token}
                    /\ UNCHANGED <<authCodeStore, redeemed>>
       ELSE /\ resp' = Error("unsupported_grant_type")
            /\ UNCHANGED <<authCodeStore, redeemed, issued>>
    /\ UNCHANGED <<now, advances, storeFile, stateStore, generated, pending, authorised>>

\* the interval timer of stateStore fires
StateSweep ==
    /\ stateStore' = pruneExpiredEntries(stateStore, now)
    /\ stateStore' # stateStore
    /\ UNCHANGED <<now, advances, storeFile, authCodeStore, generated, requests, req,
                   resp, pending, authorised, redeemed, issued>>

\* the interval timer of authCodeStore fires
AuthCodeSweep ==
    /\ authCodeStore' = pruneExpiredEntries(authCodeStore, now)
    /\ authCodeStore' # authCodeStore
    /\ UNCHANGED <<now, advances, storeFile, stateStore, generated, requests, req,
                   resp, pending, authorised, redeemed, issued>>

\* time passes
BridgeTick(d) ==
    /\ advances < MaxBridgeTicks
    /\ now' = now + d
    /\ advances' = advances + 1
    /\ UNCHANGED <<storeFile, bridgeVars>>

notBridge == <<lockVars, atomicVars, refreshVars, registryVars, storeVars,
              resourceVars, pureVars, timerVars, startupVars, pagerVars>>

NextBridge ==
    \/ Start /\ UNCHANGED notBridge
    \/ \E q \in AuthorizeQueries :
          Authorize(q.state, q.redirect_uri, q.response_type, q.client_id)
          /\ UNCHANGED notBridge
    \/ \E q \in CallbackQueries :
          Callback(q.error, q.code, q.state) /\ UNCHANGED notBridge
    \/ \E callback \in pending, answer \in ExchangeAnswers, lockTimeout \in BOOLEAN :
          CallbackExchanged(callback, answer, lockTimeout) /\ UNCHANGED notBridge
    \/ \E b \in CodeGrantBodies :
          Token(b.client_id, b.client_secret, "authorization_code", b.code, NoToken)
          /\ UNCHANGED notBridge
    \/ \E b \in RefreshGrantBodies :
          Token(b.client_id, b.client_secret, "refresh_token", Missing, b.refresh_token)
          /\ UNCHANGED notBridge
    \/ Token(LOOKER_CLIENT_ID, LOOKER_CLIENT_SECRET, "password", Missing, NoToken)
          /\ UNCHANGED notBridge
    \/ StateSweep /\ UNCHANGED notBridge
    \/ AuthCodeSweep /\ UNCHANGED notBridge
    \/ \E d \in {TOKEN_STATE_TTL_MS, Days(30)} : BridgeTick(d) /\ UNCHANGED notBridge

(***************************************************************************)
(* The FileTokenStore on its own (SpecStore): saveConnectorToken,          *)
(* getConnectorToken and POST /api/connector/revoke called one after the   *)
(* other, each one atomic, on a file that starts absent or in the legacy   *)
(* plaintext shape, with the clock advancing between calls.                *)
(***************************************************************************)
MaxStoreCalls == 3    \* store calls in one behaviour

\* the key of an instance configured with another ENCRYPTION_KEY
OtherKey == "K2"
StoreKeys == {EncryptionKey, OtherKey}

NoCall == [n |-> 0, op |-> "none", subject |-> None, key |-> None, wrote |-> FALSE]
NoReply == [record |-> NoRecord, revoked |-> FALSE, error |-> "", status |-> 0]

\* store files written before encryption was introduced: camelCase entries
\* with plaintext tokens; the second has no createdAt and an entry that
\* lacks its refresh token
LegacyFiles ==
    {[t |-> "data", version |-> 1,
      tokens |-> [s \in Subjects |->
          IF s = "s1"
          THEN [BlankEntry EXCEPT !.accessToken = Str("at0"), !.refreshToken = Str("rt0"),
                                  !.expiresAt = Seconds(3600),
                                  !.refreshExpiresAt = Seconds(2 * 3600),
                                  !.createdAt = Ms(10), !.updatedAt = Ms(10)]
          ELSE Absent]],
     [t |-> "data", version |-> 1,
      tokens |-> [s \in Subjects |->
          IF s = "s1"
          THEN [BlankEntry EXCEPT !.accessToken = Str("at0"), !.refreshToken = Str("rt0"),
                                  !.expiresAt = Seconds(3600),
                                  !.refreshExpiresAt = Seconds(2 * 3600)]
          ELSE [BlankEntry EXCEPT !.accessToken = Str("at9")]]]}

\* the records the callers of saveConnectorToken build from a token response:
\* a short and a long refresh grant, and a response without refresh_token
TokenDatas(n, s, t) ==
    {buildTokenRecord(TokenResponse(n, Str(s), Str("video.list"), 3600, 2 * 3600), t),
     buildTokenRecord(TokenResponse(n, Str(s), Undefined, 3600, 60 * 24 * 3600), t),
     [buildTokenRecord(TokenResponse(n, Str(s), Str("video.list"), 3600, 2 * 3600), t)
        EXCEPT !.refreshToken = Undefined]}

\* a verification that takes a backend token of either type
verifyBackendJwtAnyType(token, t) == verify(token, BACKEND_JWT_SECRET, t)
\* a verification that also wants the subject to have a record in the store
verifyBackendJwtOfConnected(token, t) ==
    /\ verify(token, BACKEND_JWT_SECRET, t) /\ token.typ = "access"
    /\ getConnectorTokenResult(readData(storeFile), token.sub.s, EncryptionKey) # Null
\* verifyBackendJwt does not throw
verifyBackendJwt(token, t) ==
    verify(token, BACKEND_JWT_SECRET, t) /\ token.typ = "access"

\* the Authorization header of a revoke request: none, a forged token, a
\* refresh token, or the access token of a subject
Bearers(t) ==
    {NoToken} \cup Forged
    \cup {sign(Str("s1"), Null, "refresh", BACKEND_JWT_SECRET, BACKEND_TOKEN_TTL_SECONDS, t)}
    \cup {sign(Str(s), Null, "access", BACKEND_JWT_SECRET, BACKEND_TOKEN_TTL_SECONDS, t) :
            s \in Subjects}

InitStore ==
    /\ storeCall = NoCall
    /\ storeReply = NoReply
    /\ saved = [s \in Subjects |-> NoRecord]

\* the deployment was upgraded from the plaintext store
StoreLegacy(file) ==
    /\ storeFile = NoFile /\ storeCall.n = 0
    /\ storeFile' = file
    /\ UNCHANGED <<now, advances, storeCall, storeReply, saved>>

\* await tokenStore.saveConnectorToken(s, tokenData)
StoreSave(s, tokenData) ==
    /\ storeCall.n < MaxStoreCalls
    /\ \E iv \in LockIVs :
         storeFile' = saveConnectorTokenData(readData(storeFile), s, tokenData, now,
                                             EncryptionKey, iv)
    /\ storeCall' = [n |-> storeCall.n + 1, op |-> "save", subject |-> s,
                     key |-> EncryptionKey, wrote |-> TRUE]
    /\ storeReply' = NoReply
    /\ saved' = [saved EXCEPT ![s] = tokenData]
    /\ UNCHANGED <<now, advances>>

\* await tokenStore.getConnectorToken(s) by an instance whose key is key, as
\* getAccessTokenForSubject calls it, up to its test of what came back:
\* if (!tokenData) return { error: 'invalid_subject', status: 401 }
StoreGet(s, key) ==
    /\ storeCall.n < MaxStoreCalls
    /\ \E iv \in LockIVs :
         LET data0 == readData(storeFile)
             data == IF needsMigration(data0)
                     THEN migrateData(data0, now, key, iv) ELSE data0
             tokenData == getConnectorTokenResult(data, s, key)
         IN /\ storeFile' = IF needsMigration(data0) THEN data ELSE storeFile
            /\ storeReply' =
                 [NoReply EXCEPT
                    !.record = tokenData,
                    !.error = IF tokenData = Null THEN Failed("invalid_subject").error
                              ELSE "",
                    !.status = IF tokenData = Null THEN Failed("invalid_subject").status
                               ELSE 0]
    /\ storeCall' = [n |-> storeCall.n + 1, op |-> "get", subject |-> s, key |-> key,
                     wrote |-> needsMigration(readData(storeFile))]
    /\ UNCHANGED <<now, advances, saved>>

\* POST /api/connector/revoke with the Authorization header bearer
StoreRevoke(bearer) ==
    /\ storeCall.n < MaxStoreCalls
    /\ IF bearer = NoToken \/ ~verifyBackendJwt(bearer, now)
       THEN /\ storeReply' = [NoReply EXCEPT !.status = 401]
            /\ storeCall' = [n |-> storeCall.n + 1, op |-> "unauthorized",
                             subject |-> None, key |-> EncryptionKey, wrote |-> FALSE]
            /\ UNCHANGED <<storeFile, saved>>
       ELSE \E iv \in LockIVs :
            LET s == bearer.sub.s
                data0 == readData(storeFile)
                data == IF needsMigration(data0)
                        THEN migrateData(data0, now, EncryptionKey, iv) ELSE data0
                existed == data.tokens[s] # Absent
            IN /\ storeFile' = IF existed THEN revokeConnectorTokenData(data, s)
                               ELSE IF needsMigration(data0) THEN data ELSE storeFile
               /\ storeReply' = [NoReply EXCEPT !.revoked = existed,
                                   !.status = IF existed THEN 200 ELSE 404]
               /\ storeCall' = [n |-> storeCall.n + 1, op |-> "revoke", subject |-> s,
                                key |-> EncryptionKey,
                                wrote |-> existed \/ needsMigration(data0)]
               /\ saved' = [saved EXCEPT ![s] = NoRecord]
    /\ UNCHANGED <<now, advances>>

\* someone edits the stored record of s: the tag of its access token no
\* longer matches the data, or its refresh token is no envelope any more
StoreTamper(s, how) ==
    /\ storeCall.n < MaxStoreCalls
    /\ storeFile # NoFile /\ ~needsMigration(storeFile)
    /\ storeFile.tokens[s] # Absent
    /\ storeFile' = IF how = "tag"
                    THEN [storeFile EXCEPT !.tokens[s].access_token.tag =
                            <<"tampered", @[2], @[3]>>]
                    ELSE [storeFile EXCEPT !.tokens[s].refresh_token = Str("garbled")]
    /\ storeFile' # storeFile
    /\ storeCall' = [n |-> storeCall.n + 1, op |-> "tamper", subject |-> s,
                     key |-> None, wrote |-> FALSE]
    /\ storeReply' = NoReply
    /\ saved' = [saved EXCEPT ![s] = NoRecord]
    /\ UNCHANGED <<now, advances>>

\* time passes
StoreTick(d) ==
    /\ advances < MaxAdvances /\ storeFile # NoFile
    /\ now' = now + d
    /\ advances' = advances + 1
    /\ UNCHANGED <<storeFile, storeCall, storeReply, saved>>

notStore == <<lockVars, atomicVars, refreshVars, registryVars, bridgeVars,
             resourceVars, pureVars, timerVars, startupVars, pagerVars>>

NextStore ==
    \/ \E file \in LegacyFiles : StoreLegacy(file) /\ UNCHANGED notStore
    \/ \E s \in Subjects : \E tokenData \in TokenDatas(storeCall.n + 1, s, now) :
          StoreSave(s, tokenData) /\ UNCHANGED notStore
    \/ \E s \in Subjects, key \in StoreKeys : StoreGet(s, key) /\ UNCHANGED notStore
    \/ \E bearer \in Bearers(now) : StoreRevoke(bearer) /\ UNCHANGED notStore
    \/ \E s \in Subjects, how \in {"tag", "malformed"} :
          StoreTamper(s, how) /\ UNCHANGED notStore
    \/ \E d \in {Days(1), Days(31)} : StoreTick(d) /\ UNCHANGED notStore

(***************************************************************************)
(* The protected endpoints (SpecResource): GET /api/tiktok/user,           *)
(* GET /api/tiktok/videos and POST /api/connector/revoke, one request at a *)
(* time, one step per await. `effects` lists what the current request has  *)
(* done outside the process: store calls and calls to the provider.        *)
(***************************************************************************)
MaxHandled == 2       \* requests to the protected endpoints in one behaviour

Endpoints == {"user", "videos", "revoke"}
NoHandlerRequest ==
    [endpoint |-> "none", bearer |-> NoToken, queryOk |-> FALSE, at |-> 0]
Effect(kind, subject, token) == [kind |-> kind, subject |-> subject, token |-> token]

\* a catch block that answers as if the caller were not authenticated
ServerErrorAsUnauthorized == [Failed("server_error") EXCEPT !.status = 401]
\* the catch blocks of the three endpoints
ServerError == [Failed("server_error") EXCEPT !.status = 500]

InitResource ==
    /\ hpc = "idle"
    /\ hreq = NoHandlerRequest
    /\ hres = NoResult
    /\ effects = <<>>
    /\ handled = 0

\* Hop A completed for subject s at some earlier request
ResourceConnect(s) ==
    /\ hpc \in {"idle", "done"} /\ readData(storeFile).tokens[s] = Absent
    /\ \E iv \in LockIVs :
         storeFile' = saveConnectorTokenData(readData(storeFile), s,
                          buildTokenRecord(
                              TokenResponse(0, Str(s), Str("video.list"), 3600, 2 * 3600),
                              now),
                          now, EncryptionKey, iv)
    /\ UNCHANGED <<now, advances, hpc, hreq, hres, effects, handled>>

\* a request arrives: getBearerTokenFromRequest, verifyBackendJwt; the revoke
\* endpoint then calls revokeConnectorToken
ResourceArrive(endpoint, bearer, queryOk, lockTimeout) ==
    /\ hpc \in {"idle", "done"} /\ handled < MaxHandled
    /\ handled' = handled + 1
    /\ hreq' = [endpoint |-> endpoint, bearer |-> bearer, queryOk |-> queryOk,
                at |-> now]
    /\ IF bearer = NoToken
       THEN /\ hres' = [Failed("missing_access_token") EXCEPT !.status = 401]
            /\ hpc' = "done" /\ effects' = <<>> /\ UNCHANGED storeFile
       ELSE IF ~verifyBackendJwt(bearer, now)
       THEN /\ hres' = [Failed("invalid_access_token") EXCEPT !.status = 401]
            /\ hpc' = "done" /\ effects' = <<>> /\ UNCHANGED storeFile
       ELSE IF endpoint = "revoke" /\ lockTimeout
       THEN /\ hres' = ServerError /\ hpc' = "done"
            /\ effects' = <<Effect(LockTimeoutError, bearer.sub.s, "")>>
            /\ UNCHANGED storeFile
       ELSE IF endpoint = "revoke"
       THEN \E iv \in LockIVs :
            LET s == bearer.sub.s
                data0 == readData(storeFile)
                data == IF needsMigration(data0)
                        THEN migrateData(data0, now, EncryptionKey, iv) ELSE data0
                existed == data.tokens[s] # Absent
            IN /\ storeFile' = IF existed THEN revokeConnectorTokenData(data, s)
                               ELSE IF needsMigration(data0) THEN data ELSE storeFile
               /\ hres' = [NoResult EXCEPT !.status = IF existed THEN 200 ELSE 404]
               /\ effects' = <<Effect("revokeConnectorToken", s, "")>>
               /\ hpc' = "done"
       ELSE /\ hres' = NoResult /\ hpc' = "resolve" /\ effects' = <<>>
            /\ UNCHANGED storeFile
    /\ UNCHANGED <<now, advances>>

\* getAccessTokenForSubject(payload.sub), up to the fetch of refreshAccessToken
ResourceResolve(lockTimeout) ==
    /\ hpc = "resolve"
    /\ LET s == hreq.bearer.sub.s
           td == getConnectorTokenResult(readData(storeFile), s, EncryptionKey)
           got == Effect("getConnectorToken", s, IF td = Null THEN "" ELSE td.accessToken)
       IN IF lockTimeout
          THEN /\ hres' = ServerError /\ hpc' = "done"
               /\ effects' = Append(effects, Effect(LockTimeoutError, s, ""))
          ELSE IF td = Null
          THEN /\ hres' = Failed("invalid_subject") /\ hpc' = "done"
               /\ effects' = Append(effects, got)
          ELSE IF isAccessTokenValid(td, now)
          THEN /\ hres' = Returned(td.accessToken) /\ hpc' = "query"
               /\ effects' = Append(effects, got)
          ELSE IF ~isRefreshTokenValid(td, now)
          THEN /\ hres' = Failed("refresh_token_expired") /\ hpc' = "done"
               /\ effects' = Append(effects, got)
          ELSE /\ hres' = NoResult /\ hpc' = "refreshing"
               /\ effects' = effects \o <<got, Effect("refreshAccessToken", s,
                                                       td.refreshToken)>>
    /\ UNCHANGED <<now, advances, storeFile, hreq, handled>>

\* the token endpoint answers; on success buildTokenRecord and saveConnectorToken
ResourceRefreshed(ok, lockTimeout) ==
    /\ hpc = "refreshing"
    /\ LET s == hreq.bearer.sub.s
           updatedRecord == buildTokenRecord(
                        TokenResponse(handled, Str(s), Str("video.list"), 3600, 2 * 3600),
                        now)
       IN IF ~ok
          THEN /\ hres' = Failed("token_refresh_failed") /\ hpc' = "done"
               /\ UNCHANGED <<storeFile, effects>>
          ELSE IF lockTimeout
          THEN /\ hres' = ServerError /\ hpc' = "done"
               /\ effects' = Append(effects, Effect(LockTimeoutError, s, ""))
               /\ UNCHANGED storeFile
          ELSE /\ \E iv \in LockIVs :
                    storeFile' = saveConnectorTokenData(readData(storeFile), s,
                                     updatedRecord, now, EncryptionKey, iv)
               /\ effects' = Append(effects, Effect("saveConnectorToken", s,
                                                    Plain(updatedRecord.accessToken)))
               /\ hres' = Returned(Plain(updatedRecord.accessToken))
               /\ hpc' = "query"
    /\ UNCHANGED <<now, advances, hreq, handled>>

\* parseFieldsParam and the other checks of the query, then the fetch of the
\* provider's resource API with tokenResult.accessToken
ResourceCall ==
    /\ hpc = "query"
    /\ IF ~hreq.queryOk
       THEN /\ hres' = [Failed("invalid_fields") EXCEPT !.status = 400]
            /\ UNCHANGED effects
       ELSE /\ hres' = [hres EXCEPT !.status = 200]
            /\ effects' = Append(effects, Effect("fetch " \o hreq.endpoint,
                                                 hreq.bearer.sub.s, hres.accessToken))
    /\ hpc' = "done"
    /\ UNCHANGED <<now, advances, storeFile, hreq, handled>>

\* time passes
ResourceTick(d) ==
    /\ advances < MaxAdvances /\ storeFile # NoFile
    /\ now' = now + d
    /\ advances' = advances + 1
    /\ UNCHANGED <<storeFile, hpc, hreq, hres, effects, handled>>

notResource == <<lockVars, atomicVars, refreshVars, registryVars, bridgeVars, storeVars,
                pureVars, timerVars, startupVars, pagerVars>>

NextResource ==
    \/ \E s \in Subjects : ResourceConnect(s) /\ UNCHANGED notResource
    \/ \E endpoint \in Endpoints, bearer \in Bearers(Ms(10)) \cup Bearers(now),
          queryOk \in BOOLEAN, lockTimeout \in BOOLEAN :
          ResourceArrive(endpoint, bearer, queryOk, lockTimeout) /\ UNCHANGED notResource
    \/ \E lockTimeout \in BOOLEAN : ResourceResolve(lockTimeout) /\ UNCHANGED notResource
    \/ \E ok \in BOOLEAN, lockTimeout \in BOOLEAN :
          ResourceRefreshed(ok, lockTimeout) /\ UNCHANGED notResource
    \/ ResourceCall /\ UNCHANGED notResource
    \/ \E d \in {Seconds(3600)} : ResourceTick(d) /\ UNCHANGED notResource

(***************************************************************************)
(* Functions applied to chosen inputs (SpecValidity, SpecListing).         *)
(***************************************************************************)
MaxSkew == 2          \* clock units on either side of the start of the buffer

\* expiries: missing, or up to MaxSkew + 2 units after the buffer's length
Expiries == {0} \cup {TOKEN_REFRESH_BUFFER_MS + k : k \in 1..(MaxSkew + 2)}
Instants == 0..(MaxSkew + 3)

NoProbe == [expiresAt |-> 0, refreshExpiresAt |-> 0, at |-> 0 - 1,
            access |-> FALSE, refresh |-> FALSE]

\* a listing that shows the start of the stored access token
listTokensSafeLabelled(data) ==
    {[token_prefix |-> IF data.tokens[s].access_token.t = "env"
                       THEN safeTokenLabel(data.tokens[s].access_token.data.pt)
                       ELSE safeTokenLabel(Plain(data.tokens[s].accessToken)),
      open_id |-> data.tokens[s].open_id,
      scopes |-> data.tokens[s].scopes,
      expires_at |-> data.tokens[s].expires_at,
      refresh_expires_at |-> data.tokens[s].refresh_expires_at,
      created_at |-> data.tokens[s].created_at,
      updated_at |-> data.tokens[s].updated_at] :
        s \in {x \in Subjects : data.tokens[x] # Absent}}
\* Object.entries(data.tokens).map(...), as the set of its rows; null is ""
\* for a string and 0 for a number
listTokensSafe(data) ==
    {[token_prefix |-> safeTokenLabel(s),
      open_id |-> data.tokens[s].open_id,
      scopes |-> data.tokens[s].scopes,
      expires_at |-> data.tokens[s].expires_at,
      refresh_expires_at |-> data.tokens[s].refresh_expires_at,
      created_at |-> data.tokens[s].created_at,
      updated_at |-> data.tokens[s].updated_at] :
        s \in {x \in Subjects : data.tokens[x] # Absent}}

\* store files: none, legacy files, and files written by saveConnectorToken
\* for one or two subjects with the n-th token pair of the provider
SavedFile(data, n, s) ==
    saveConnectorTokenData(data, s,
        buildTokenRecord(TokenResponse(n, Str(s), Str("video.list"), 3600, 2 * 3600),
                         Ms(10)),
        Ms(10), EncryptionKey, "n1")
ListedFiles ==
    {NoFile} \cup LegacyFiles
    \cup {[file EXCEPT !.tokens["s1"].accessToken = Str("at1")] : file \in LegacyFiles}
    \cup {SavedFile(EmptyData, n, s) : n \in 0..1, s \in Subjects}
    \cup {SavedFile(SavedFile(EmptyData, n, "s1"), n, "s2") : n \in 0..1}

NoListing == [a |-> NoFile, b |-> NoFile, outA |-> {}, outB |-> {}, listed |-> FALSE]

InitPure ==
    /\ probe = NoProbe
    /\ listing = NoListing

\* tokenStore.isAccessTokenValid(tokenData) and
\* tokenStore.isRefreshTokenValid(tokenData) at Date.now() = t
ProbeValidity(expiresAt, refreshExpiresAt, t) ==
    LET tokenData == [expiresAt |-> expiresAt, refreshExpiresAt |-> refreshExpiresAt]
    IN /\ probe' = [expiresAt |-> expiresAt, refreshExpiresAt |-> refreshExpiresAt,
                    at |-> t,
                    access |-> isAccessTokenValid(tokenData, t),
                    refresh |-> isRefreshTokenValid(tokenData, t)]
       /\ UNCHANGED listing

\* tokenStore.listTokensSafe() on the file a and on the file b
ListSafe(a, b) ==
    /\ listing' = [a |-> a, b |-> b,
                   outA |-> listTokensSafe(readData(a)),
                   outB |-> listTokensSafe(readData(b)),
                   listed |-> TRUE]
    /\ UNCHANGED probe

notPure == <<now, advances, storeFile, lockVars, atomicVars, refreshVars, registryVars,
             bridgeVars, storeVars, resourceVars, timerVars, startupVars, pagerVars>>

NextValidity ==
    \E expiresAt \in Expiries, refreshExpiresAt \in Expiries, t \in Instants :
        ProbeValidity(expiresAt, refreshExpiresAt, t) /\ UNCHANGED notPure

NextListing ==
    \E a \in ListedFiles, b \in ListedFiles : ListSafe(a, b) /\ UNCHANGED notPure

(***************************************************************************)
(* The initial state, and the specification of the lock                    *)
(***************************************************************************)
(***************************************************************************)
(* Startup of the server (SpecStartup): the paths of the token store are   *)
(* read from the environment, ensureTokenStoreOutsidePublic runs, and the  *)
(* server listens. A path is the sequence of its segments below __dirname. *)
(***************************************************************************)
MaxDepth == 2         \* segments in a configured path

Names == {"public", "data", "tokens.json", "..tokens"}
Paths == UNION {[1..n -> Names] : n \in 1..MaxDepth}
Unset == <<>>

PUBLIC_DIR == <<"public">>
tokenStorePath(env) == IF env = Unset THEN <<"data", "tokens.json">> ELSE env
tokenLockPath(env) == IF env = Unset THEN <<"data", "tokens.json.lock">> ELSE env

\* path.relative(from, to) of two resolved paths, as a string
RECURSIVE CommonLen(_, _)
CommonLen(from, to) ==
    IF from # <<>> /\ to # <<>> /\ Head(from) = Head(to)
    THEN 1 + CommonLen(Tail(from), Tail(to)) ELSE 0
RECURSIVE JoinPath(_)
JoinPath(segments) ==
    IF segments = <<>> THEN ""
    ELSE IF Len(segments) = 1 THEN Head(segments)
    ELSE Head(segments) \o "/" \o JoinPath(Tail(segments))
relative(from, to) ==
    LET k == CommonLen(from, to)
    IN JoinPath([i \in 1..(Len(from) - k) |-> ".."] \o SubSeq(to, k + 1, Len(to)))
startsWith(str, prefix) ==
    Len(str) >= Len(prefix) /\ SubSeq(str, 1, Len(prefix)) = prefix
isAbsolute(str) == startsWith(str, "/")

\* TRUE when ensureTokenStoreOutsidePublic throws
ensureTokenStoreOutsidePublic(storePath) ==
    LET rel == relative(PUBLIC_DIR, storePath)
    IN rel = "" \/ (~startsWith(rel, "..") /\ ~isAbsolute(rel))

NoBoot == [phase |-> "start", storePath |-> Unset, lockPath |-> Unset,
           served |-> FALSE]
InitStartup == boot = NoBoot

\* process.env.TOKEN_STORE_PATH, process.env.TOKEN_LOCK_PATH, new FileTokenStore
Configure(storeEnv, lockEnv) ==
    /\ boot.phase = "start"
    /\ boot' = [boot EXCEPT !.phase = "configured",
                            !.storePath = tokenStorePath(storeEnv),
                            !.lockPath = tokenLockPath(lockEnv)]

\* ensureTokenStoreOutsidePublic(): the throw ends the process
CheckPaths ==
    /\ boot.phase = "configured"
    /\ boot' = [boot EXCEPT !.phase =
                   IF ensureTokenStoreOutsidePublic(boot.storePath)
                   THEN "aborted" ELSE "checked"]

\* app.listen(PORT)
Listen ==
    /\ boot.phase = "checked"
    /\ boot' = [boot EXCEPT !.phase = "listening"]

\* the first request is answered
Serve ==
    /\ boot.phase = "listening" /\ ~boot.served
    /\ boot' = [boot EXCEPT !.served = TRUE]

notStartup == <<now, advances, storeFile, lockVars, atomicVars, refreshVars,
               registryVars, bridgeVars, storeVars, resourceVars, pureVars, timerVars,
               pagerVars>>

NextStartup ==
    \/ \E storeEnv \in Paths \cup {Unset}, lockEnv \in Paths \cup {Unset} :
          Configure(storeEnv, lockEnv) /\ UNCHANGED notStartup
    \/ CheckPaths /\ UNCHANGED notStartup
    \/ Listen /\ UNCHANGED notStartup
    \/ Serve /\ UNCHANGED notStartup

(***************************************************************************)
(* The connector's video pagination (SpecPages): fetchPaginatedVideos,     *)
(* one step per turn of its loop. The videos are numbered in the order in  *)
(* which the backend returns them.                                         *)
(***************************************************************************)
MAX_VIDEOS_TO_FETCH == 200
MAX_API_RETRIES == 3
maxRequests == 10
PageLens == {0, 1, 20, 25}     \* videos on one page (max_count=20 is asked for)
MaxVideosArgs == {0, 1, 21, MAX_VIDEOS_TO_FETCH, MAX_VIDEOS_TO_FETCH + 50}

\* what the calls of UrlFetchApp.fetch for one page do, in turn: each throws
\* or answers with a status
PageOutcomes ==
    {<<"200">>, <<"401">>, <<"500", "200">>, <<"throws", "throws", "200">>,
     <<"429", "throws", "401">>, <<"500", "429", "500">>,
     <<"throws", "throws", "throws">>}
Retryable(a) == a \in {"429", "500"}

\* fetchWithRetry: the answer to the page request after at most `retries`
\* attempts; "throws" when the last attempt threw
RECURSIVE fetchWithRetry(_, _)
fetchWithRetry(outcomes, i) ==
    LET a == outcomes[i + 1]
    IN IF i < MAX_API_RETRIES - 1 /\ (a = "throws" \/ Retryable(a))
       THEN fetchWithRetry(outcomes, i + 1)
       ELSE [response |-> a, tries |-> i + 1]

\* the bodies of 200 answers: unparsable, a provider error, or a page of
\* `len` videos with a has_more that is true, false, the string "true" or missing
Bodies ==
    {[kind |-> "garbage", len |-> 0, has_more |-> "undefined"],
     [kind |-> "error", len |-> 0, has_more |-> "undefined"]}
    \cup {[kind |-> "page", len |-> n, has_more |-> h] :
            n \in PageLens, h \in {"true", "false", "'true'", "undefined"}}

NoPager == [pc |-> "idle", maxVideos |-> 0, allVideos |-> <<>>, hasMore |-> TRUE,
            requestCount |-> 0, tries |-> 0, page |-> "none", returned |-> <<>>]
InitPages == pager = NoPager

\* a loop that goes on while there is more to fetch, however many requests
\* it has made
keepsFetchingUncounted(p) == p.hasMore /\ Len(p.allVideos) < p.maxVideos
\* the condition of the while loop
keepsFetching(p) ==
    p.hasMore /\ Len(p.allVideos) < p.maxVideos /\ p.requestCount < maxRequests

\* fetchPaginatedVideos is called
PagesBegin(maxVideos) ==
    /\ pager.pc = "idle"
    /\ pager' = [NoPager EXCEPT !.pc = "loop", !.maxVideos = maxVideos]

\* one turn of the loop: a page request and what is done with its answer
PagesFetch(outcomes, body) ==
    /\ pager.pc = "loop" /\ keepsFetching(pager)
    /\ LET answer == fetchWithRetry(outcomes, 0)
           n == Len(pager.allVideos)
           counted == [pager EXCEPT !.requestCount = @ + 1, !.tries = answer.tries]
       IN pager' =
            IF answer.response = "throws"
            THEN [counted EXCEPT !.pc = "thrown", !.page = "exception"]
            ELSE IF answer.response # "200"
            THEN \* handleApiError throws
                 [counted EXCEPT !.pc = "thrown", !.page = "http error"]
            ELSE IF body.kind = "garbage"
            THEN \* safeJsonParse returned null, data.error throws
                 [counted EXCEPT !.pc = "thrown", !.page = "garbage"]
            ELSE IF body.kind = "error"
            THEN \* handleTikTokApiError throws
                 [counted EXCEPT !.pc = "thrown", !.page = "provider error"]
            ELSE IF body.len > 0
            THEN [counted EXCEPT
                    !.allVideos = @ \o [i \in 1..body.len |-> n + i],
                    !.hasMore = (body.has_more = "true"),
                    !.page = IF body.has_more = "true" THEN "more" ELSE "last"]
            ELSE [counted EXCEPT !.hasMore = FALSE, !.page = "empty"]

\* the loop ends: allVideos.slice(0, maxVideos)
PagesReturn ==
    /\ pager.pc = "loop" /\ ~keepsFetching(pager)
    /\ pager' = [pager EXCEPT !.pc = "done",
                   !.returned = SubSeq(pager.allVideos, 1,
                                       IF Len(pager.allVideos) < pager.maxVideos
                                       THEN Len(pager.allVideos) ELSE pager.maxVideos)]

notPages == <<now, advances, storeFile, lockVars, atomicVars, refreshVars, registryVars,
             bridgeVars, storeVars, resourceVars, pureVars, timerVars, startupVars>>

NextPages ==
    \/ \E maxVideos \in MaxVideosArgs : PagesBegin(maxVideos) /\ UNCHANGED notPages
    \/ \E outcomes \in PageOutcomes, body \in Bodies :
          PagesFetch(outcomes, body) /\ UNCHANGED notPages
    \/ PagesReturn /\ UNCHANGED notPages

Init ==
    \* Date.now() is never 0
    /\ now = Ms(10) /\ advances = 0
    /\ storeFile = NoFile
    /\ InitLock
    /\ InitAtomic
    /\ InitRefresh
    /\ InitRegistry
    /\ InitBridge
    /\ InitStore
    /\ InitResource
    /\ InitPure
    /\ InitStartup
    /\ InitPages

Next ==
    \/ \E c \in Callers : \E o \in OpsOf(c) : Begin(c, o.kind, o.subject)
    \/ \E c \in Callers : withLockOpen(c)
    \/ \E c \in Callers : withLockWritePid(c)
    \/ \E c \in Callers : tryClearStaleLockRead(c)
    \/ \E c \in Callers : tryClearStaleLockUnlink(c)
    \/ \E c \in Callers : withLockWake(c)
    \/ \E c \in Callers : BodyRead(c)
    \/ \E c \in Callers : BodyWrite(c)
    \/ \E c \in Callers : withLockRelease(c)
    \/ \E p \in Pids : Crash(p)
    \/ \E d \in {LOCK_RETRY_DELAY_MS, LOCK_TIMEOUT_MS} : Tick(d)

Spec == Init /\ [][Next]_vars

\* the store operations with bodies that may throw, and no process dying:
\* a save and a lookup in process 1, a save in process 2
ReleaseOps ==
    {<<"a", Op("save", "s1")>>, <<"b", Op("get", "s1")>>, <<"c", Op("save", "s2")>>}
NextRelease ==
    \/ \E o \in ReleaseOps : Begin(o[1], o[2].kind, o[2].subject)
    \/ \E c \in Callers : withLockOpen(c)
    \/ \E c \in Callers : withLockWritePid(c)
    \/ \E c \in Callers : tryClearStaleLockRead(c)
    \/ \E c \in Callers : tryClearStaleLockUnlink(c)
    \/ \E c \in Callers : withLockWake(c)
    \/ \E c \in Callers : BodyRead(c)
    \/ \E c \in Callers : BodyWrite(c)
    \/ \E c \in Callers : BodyFail(c)
    \/ \E c \in Callers : withLockRelease(c)
    \/ Tick(LOCK_RETRY_DELAY_MS)

\* time passes while a caller that has not yet waited LOCK_TIMEOUT_MS sleeps;
\* the short steps of the clock are counted
WaitTick(d) ==
    /\ d = LOCK_RETRY_DELAY_MS => advances < MaxAdvances
    /\ \E c \in Callers : pc[c] = "sleep" /\ now - start[c] <= LOCK_TIMEOUT_MS
    /\ now' = now + d
    /\ advances' = IF d = LOCK_RETRY_DELAY_MS THEN advances + 1 ELSE advances
    /\ UNCHANGED <<storeFile, lockVars>>
    /\ UNCHANGED notLock

\* a request of the server process and a caller in the other process
Contenders == {"a", "c"}
WaitHorizon == Ms(10) + MaxAdvances * LOCK_TIMEOUT_MS

\* the next step of withLock's loop for caller c
Acquiring(c) ==
    \/ withLockOpen(c)
    \/ withLockWritePid(c)
    \/ tryClearStaleLockRead(c)
    \/ tryClearStaleLockUnlink(c)
    \/ withLockWake(c)

\* a request handler calls listTokensSafe, any number of times before
\* WaitHorizon: withLock takes `start`
BeginAgain(c) ==
    /\ pc[c] = "idle" /\ Idle(ProcOf(c)) /\ now <= WaitHorizon
    /\ pc' = [pc EXCEPT ![c] = "open"]
    /\ op' = [op EXCEPT ![c] = Op("list", "none")]
    /\ start' = [start EXCEPT ![c] = now]
    /\ res' = [res EXCEPT ![c] = "none"]
    /\ running' = [running EXCEPT ![ProcOf(c)] = c]
    /\ created' = [created EXCEPT ![c] = FALSE]
    /\ cleared' = [cleared EXCEPT ![c] = "no"]
    /\ UNCHANGED <<now, advances, storeFile, alive, lockFile, wakeAt, snap, savedOk,
                   opsDone, revokes>>
    /\ UNCHANGED notLock

\* the next step of fn() and of withLock's finally for caller c
Holding(c) == BodyRead(c) \/ withLockRelease(c)

NextWait ==
    \/ \E c \in Contenders : BeginAgain(c)
    \/ \E c \in Contenders : Acquiring(c)
    \/ \E c \in Contenders : Holding(c)
    \/ \E p \in Pids : Crash(p)
    \/ \E d \in {LOCK_RETRY_DELAY_MS, LOCK_TIMEOUT_MS} : WaitTick(d)

(***************************************************************************)
(* Claims about the lock, under Spec                                       *)
(***************************************************************************)
\* caller c is inside the body withLock runs for it
InCS(c) == pc[c] \in {"body_read", "body_write", "release"}
Quiescent == \A c \in Callers : pc[c] \in {"idle", "dead"}
HasRecord(s) == readData(storeFile).tokens[s] # Absent

\* C1: mutual exclusion of the store lock: no two callers, of one process or of
\* two, are inside their withLock critical section at the same time.
C1_MutualExclusion ==
    \A c1, c2 \in Callers : c1 # c2 => ~(InCS(c1) /\ InCS(c2))

\* C3: no lost update: once every operation has ended, and no revoke was called,
\* the store holds a record for every subject whose save() completed.
C3_NoLostUpdate ==
    (Quiescent /\ revokes = 0) => \A s \in savedOk : HasRecord(s)

\* C5: no proceeding without the lock. The body runs only for a caller that has
\* itself created the lock file; an operation that ended with the lock timeout
\* never created it, never ran its body and had waited longer than
\* LOCK_TIMEOUT_MS; only a body changes the store file; and a caller that finds
\* the lock file naming a live process after more than LOCK_TIMEOUT_MS fails
\* with the lock timeout.
C5_Steps ==
    \A c \in Callers :
        /\ (res'[c] = "lock_timeout" /\ res[c] # "lock_timeout")
              => /\ now - start[c] > LOCK_TIMEOUT_MS
                 /\ storeFile' = storeFile
                 /\ pc'[c] = "idle"
        /\ (/\ pc[c] = "stale_read" /\ pc'[c] \notin {"stale_read", "dead"}
            /\ LockPid # 0 /\ alive[LockPid]
            /\ now - start[c] > LOCK_TIMEOUT_MS)
              => res'[c] = "lock_timeout"
C5_NoProceedingWithoutLock ==
    /\ [](\A c \in Callers : /\ InCS(c) => created[c]
                             /\ res[c] = "lock_timeout" => ~created[c])
    /\ [][C5_Steps]_vars
    /\ [][storeFile' # storeFile =>
            \E c \in Callers : pc[c] = "body_write" /\ created[c]]_vars
C5_Witness ==
    \E c \in Callers : res[c] = "lock_timeout" /\ storeFile = NoFile
                       /\ \E d \in Callers : InCS(d) /\ alive[ProcOf(d)]

\* C6: stale-lock reclamation. A caller whose stale check finds the lock file
\* naming a dead process goes on to unlink it, however long it has waited, and
\* once it has unlinked the file it retries the exclusive create at once: it
\* never ends with the lock timeout in that attempt.
C6_Steps ==
    \A c \in Callers :
        /\ (/\ pc[c] = "stale_read" /\ pc'[c] \notin {"stale_read", "dead"}
            /\ LockPid # 0 /\ ~alive[LockPid])
              => pc'[c] = "stale_unlink" /\ res'[c] = res[c]
        /\ (/\ pc[c] = "stale_unlink" /\ pc'[c] \notin {"stale_unlink", "dead"}
            /\ lockFile # NoLock)
              => pc'[c] = "open" /\ lockFile' = NoLock /\ res'[c] = res[c]
C6_StaleLockReclaimed == [][C6_Steps]_vars
\* a caller that had waited longer than the timeout removed the lock file of a
\* dead process, acquired the lock and completed
C6_Witness ==
    \E c \in Callers : cleared[c] = "stale_late" /\ created[c] /\ res[c] = "ok"

\* caller c created the lock file that is at lockPath now, in the withLock
\* call it is still in, and its process is alive
HoldsLockFile(c) ==
    /\ lockFile # NoLock /\ lockFile.owner = c
    /\ created[c] /\ pc[c] \in {"writepid", "body_read", "body_write", "release"}
    /\ alive[ProcOf(c)]

\* the step in which the stale check of caller c unlinks the lock file
ClearsAsStale(c) == pc[c] = "stale_unlink" /\ lockFile # NoLock /\ lockFile' = NoLock

\* C33: the stale check of a contender never unlinks a lock file whose
\* creator is alive and between its exclusive create and its release: not
\* before the creator has written its pid, and not when the file the
\* contender read a dead pid from has been replaced by a live holder's.
C33_NoLiveLockRemoved ==
    [][\A c \in Callers, h \in Callers : ClearsAsStale(c) => ~HoldsLockFile(h)]_vars

\* the step in which withLock's finally of caller c unlinks the file at lockPath
ReleaseUnlinks(c) ==
    pc[c] = "release" /\ pc'[c] = "idle" /\ lockFile # NoLock /\ lockFile' = NoLock

\* C34: on release a store operation unlinks only the lock file it created
\* itself, never one that another caller created after the operation's own
\* lock file was cleared as stale.
C34_ReleasesOwnLockOnly ==
    [][\A c \in Callers : ReleaseUnlinks(c) => lockFile.owner = c]_vars

(***************************************************************************)
(* Claims about the release of the lock, checked under SpecRelease: the    *)
(* bodies may throw, no process dies.                                      *)
(***************************************************************************)
SpecRelease == Init /\ [][NextRelease]_vars

\* the step in which withLock's finally of caller c has run
Releases(c) == pc[c] = "release" /\ pc'[c] = "idle"

\* C35: whenever the body of a store operation has finished, by returning
\* or by throwing, the finally of withLock runs and leaves no file at
\* lockPath, the error of a body that threw being passed on; so when no
\* operation is in progress there is no lock file, and an operation that
\* begins while no other is in progress finds none at its first openSync.
C35_ReleasedOnEveryExit ==
    /\ [][\A c \in Callers :
            /\ Releases(c) =>
                  /\ lockFile' = NoLock
                  /\ res'[c] = IF res[c] = "throwing" THEN "error" ELSE "ok"
            /\ (pc[c] \in {"body_read", "body_write"} /\ pc'[c] # pc[c]) =>
                  pc'[c] \in {"body_write", "release"}]_vars
    /\ []((\A c \in Callers : pc[c] = "idle") => lockFile = NoLock)
    /\ [](\A c \in Callers :
            pc[c] = "open" /\ (\A d \in Callers \ {c} : pc[d] = "idle") =>
                lockFile = NoLock)

\* the body of an operation threw, its lock file was removed, and the next
\* operation of the same process created the lock file at its first attempt
C35_Witness ==
    \E c, d \in Callers :
        /\ c # d /\ ProcOf(c) = ProcOf(d)
        /\ res[c] = "error" /\ pc[c] = "idle"
        /\ pc[d] = "writepid" /\ start[d] = now /\ cleared[d] = "no"
        /\ lockFile # NoLock /\ lockFile.owner = d

(***************************************************************************)
(* Claims about writeFileAtomic, under SpecAtomic                          *)
(***************************************************************************)
SpecAtomic == Init /\ [][NextAtomic]_vars

Complete(f) == f = NoBytes \/ \E n \in 1..MaxWrites : f = File(SnapshotOf(n), SnapshotLen)

\* C4: atomic persistence. At every instant, also after a failing call, a process
\* death or a power loss at any step of writeFileAtomic, filePath holds a
\* complete snapshot, all of it durable; it changes only by a rename, from the
\* complete previous snapshot to the complete new one, so a write that fails
\* (a failed rename too) leaves the previous snapshot in place.
C4_AtomicPersistence ==
    /\ [] Complete(target)
    /\ [][target' # target =>
            \E w \in Writers : /\ wpc[w] = "rename" /\ wpc'[w] = "idle"
                               /\ target' = File(SnapshotOf(contents[w]), SnapshotLen)]_vars
    /\ [][\A w \in Writers :
            wpc'[w] # wpc[w] /\ wpc'[w] \in {"failed", "crashed"} => target' = target]_vars
\* a write failed or died half way, with a part of the new snapshot in tempPath,
\* and filePath still holds the complete snapshot written before
C4_Witness ==
    \E w \in Writers :
        /\ wpc[w] \in {"failed", "crashed"}
        /\ temp[w] # NoBytes /\ Len(temp[w].bytes) = 1
        /\ target # NoBytes /\ target.bytes # SnapshotOf(contents[w])

(***************************************************************************)
(* Claims about getAccessTokenForSubject                                   *)
(***************************************************************************)
SpecRefresh == Init /\ [][NextRefresh]_vars

\* request r has posted a refresh token and has not yet returned
Refreshing(r) == rpc[r] \in {"refreshing", "save"}

\* C2: two concurrent getAccessTokenForSubject calls for one subject never both
\* send the same stored provider refresh token to the token endpoint: while a
\* call that has posted a refresh token has not returned, no other call has
\* posted that same token.
C2_NoSharedRefreshToken ==
    \A r1 \in Requests, r2 \in Requests :
        r1 # r2 /\ Refreshing(r1) /\ Refreshing(r2) /\ reqSubject[r1] = reqSubject[r2]
            => sent[r1] # sent[r2]

(***************************************************************************)
(* Claims about the StateStore                                             *)
(***************************************************************************)
SpecRegistry == Init /\ [][NextRegistry]_vars

\* the entry under key k can still be consumed
Live(store, k, t) == store[k] # Absent /\ t < store[k].expiresAt

\* C7: single use. A consume(key) returns the entry of a save(key, data) only
\* when the entry is in the map and the call comes strictly before its
\* expiresAt, and no entry is returned twice; every other consume (a second
\* call, an absent key, a call at or after expiresAt, a call after a sweep) returns
\* null; after any consume(key) the key is absent from the map.
C7_Steps ==
    calls' = calls + 1 /\ lastCall'.op = "consume" =>
        LET k == lastCall'.key
        IN /\ registry'[k] = Absent
           /\ ret' = IF Live(registry, k, now) THEN registry[k] ELSE Null
           /\ ret' # Null => ret'.data \notin returned /\ ret'.data.key = k
C7_SingleUse == [][C7_Steps]_vars
\* an entry was returned by a consume, and a second consume of its key, at the
\* same instant, returned null
C7_Witness ==
    /\ lastCall.op = "consume" /\ ret = Null
    /\ advances = 0 /\ calls = 3
    /\ \E d \in returned : d.key = lastCall.key
    /\ registry[lastCall.key] = Absent

(***************************************************************************)
(* Claims about the OAuth bridge                                           *)
(***************************************************************************)
SpecBridge == Init /\ [][NextBridge]_vars

NoDuplicates(seq) == \A i, j \in 1..Len(seq) : seq[i] = seq[j] => i = j
\* the step is the arrival of a request
Arrives == requests' = requests + 1
\* the request passes the client_id and client_secret checks of /oauth/token
ClientAccepted(r) ==
    /\ r.client_id \in {"", LOOKER_CLIENT_ID}
    /\ r.client_secret \in {"", LOOKER_CLIENT_SECRET}

\* C8: CSRF state replay fails. Each state issued by /auth/tiktok/start or
\* /oauth/authorize authorises at most one provider token exchange; a callback,
\* with a code and no error, that carries a state already consumed, never
\* issued or expired is answered 400 'Invalid state', sends no token exchange
\* and writes nothing to the credential store; the store is written only when
\* an exchange that a state authorised completes.
C8_Steps ==
    /\ Arrives /\ req'.handler = "callback" /\ req'.error = "" /\ req'.code # ""
         /\ req'.state # Missing =>
            IF Live(stateStore, req'.state, now)
            THEN /\ authorised' = Append(authorised, req'.state)
                 /\ stateStore'[req'.state] = Absent
            ELSE /\ resp' = Response(400, "Invalid state")
                 /\ authorised' = authorised /\ pending' = pending
                 /\ storeFile' = storeFile
    /\ storeFile' # storeFile =>
          \E callback \in pending : pending' = pending \ {callback}
    /\ pending' \ pending # {} => Len(authorised') > Len(authorised)
C8_StateReplayFails == [] NoDuplicates(authorised) /\ [][C8_Steps]_vars
\* the callback of a state that had authorised an exchange came again and was
\* answered 400 'Invalid state'
C8_Witness ==
    /\ req.handler = "callback" /\ resp = Response(400, "Invalid state")
    /\ \E i \in 1..Len(authorised) : authorised[i] = req.state
    /\ storeFile # NoFile

\* C9: one-time authorization code. Each code yields backend tokens at most
\* once. An authorization_code grant (of an accepted client, carrying a code)
\* returns tokens, whose subject and scopes are those bound to the code, when
\* the code is stored and unexpired, and removes it; a grant with a code already
\* used, unknown or expired returns 400 invalid_grant and issues no token.
C9_Steps ==
    Arrives /\ req'.handler = "token" /\ ClientAccepted(req')
      /\ req'.grant_type = "authorization_code" /\ req'.authCode # Missing =>
         LET code == req'.authCode
             bound == authCodeStore[code].data
         IN /\ authCodeStore'[code] = Absent
            /\ IF Live(authCodeStore, code, now)
               THEN /\ resp'.status = 200
                    /\ resp'.access_token.sub = bound.subject
                    /\ resp'.access_token.scopes = bound.scopes
                    /\ resp'.access_token.typ = "access"
                    /\ resp'.refresh_token.sub = bound.subject
                    /\ resp'.refresh_token.scopes = bound.scopes
                    /\ resp'.refresh_token.typ = "refresh"
                    /\ redeemed' = Append(redeemed, code)
               ELSE /\ resp' = Response(400, "invalid_grant")
                    /\ issued' = issued /\ redeemed' = redeemed
C9_OneTimeCode == [] NoDuplicates(redeemed) /\ [][C9_Steps]_vars
\* a code that had yielded tokens was presented again and refused
C9_Witness ==
    /\ req.handler = "token" /\ req.grant_type = "authorization_code"
    /\ resp = Response(400, "invalid_grant")
    /\ \E i \in 1..Len(redeemed) : redeemed[i] = req.authCode
    /\ issued # {}

\* C10: refresh grant type check. A refresh_token grant (of an accepted client,
\* carrying a token) issues a new access token, with the subject and scopes of
\* the presented token, only when that token is signed with the backend secret,
\* unexpired and of type refresh; any other token is answered 400 invalid_grant
\* and no token is issued.
C10_Steps ==
    Arrives /\ req'.handler = "token" /\ ClientAccepted(req')
      /\ req'.grant_type = "refresh_token" /\ req'.refresh_token # NoToken =>
         LET presented == req'.refresh_token
         IN IF /\ presented.secret = BACKEND_JWT_SECRET
               /\ Sec(now) < presented.exp
               /\ presented.typ = "refresh"
            THEN /\ resp'.status = 200
                 /\ resp'.access_token.sub = presented.sub
                 /\ resp'.access_token.scopes = presented.scopes
                 /\ resp'.access_token.typ = "access"
                 /\ resp'.access_token.secret = BACKEND_JWT_SECRET
                 /\ resp'.access_token.exp = Sec(now) + BACKEND_TOKEN_TTL_SECONDS
                 /\ resp'.refresh_token = presented
                 /\ issued' = issued \cup {resp'.access_token}
            ELSE /\ resp' = Response(400, "invalid_grant")
                 /\ issued' = issued
C10_RefreshTypeCheck == [][C10_Steps]_vars
\* a validly signed, unexpired access token was presented to the refresh grant
\* and refused
C10_Witness ==
    /\ req.handler = "token" /\ req.grant_type = "refresh_token"
    /\ req.refresh_token # NoToken
    /\ req.refresh_token.secret = BACKEND_JWT_SECRET
    /\ req.refresh_token.typ = "access" /\ Sec(now) < req.refresh_token.exp
    /\ resp = Response(400, "invalid_grant")

(***************************************************************************)
(* Claims about getAccessTokenForSubject, checked under SpecRefresh.       *)
(***************************************************************************)
\* the record a getConnectorToken call would return for subject s right now
Stored(s) == getConnectorTokenResult(readData(storeFile), s, EncryptionKey)

\* the step of request r that runs the code after the store lookup
C11_Decides(r) == rpc[r] = "got" /\ rpc'[r] # "got"

\* the step of request r that saves the refreshed record and returns
C11_Saves(r) == rpc[r] = "save" /\ rpc'[r] = "done"

\* C11: the resolution follows one priority order. No usable record gives
\* invalid_subject; otherwise a stored access token that outlives the refresh
\* buffer is returned as it is; otherwise a refresh token that does not
\* outlive the buffer gives refresh_token_expired; otherwise the refresh
\* endpoint is called, once, with the stored refresh token, and on success
\* the updated record is persisted and its new access token is returned.
C11_PriorityOrder ==
    [][\A r \in Requests :
        /\ C11_Decides(r) =>
              LET td == reqTokenData[r]
                  accessOk == /\ td.expiresAt # 0
                              /\ now + TOKEN_REFRESH_BUFFER_MS < td.expiresAt
                  refreshOk == /\ td.refreshExpiresAt # 0
                               /\ now + TOKEN_REFRESH_BUFFER_MS < td.refreshExpiresAt
              IN IF td = Null
                 THEN /\ result'[r].error = "invalid_subject"
                      /\ result'[r].status = 401
                      /\ sent'[r] = None /\ rpc'[r] = "done"
                 ELSE IF accessOk
                 THEN /\ result'[r].error = ""
                      /\ result'[r].accessToken = td.accessToken
                      /\ sent'[r] = None /\ rpc'[r] = "done"
                 ELSE IF ~refreshOk
                 THEN /\ result'[r].error = "refresh_token_expired"
                      /\ result'[r].status = 401
                      /\ sent'[r] = None /\ rpc'[r] = "done"
                 ELSE /\ sent'[r] = td.refreshToken
                      /\ rpc'[r] = "refreshing"
                      /\ result'[r] = NoResult
        /\ sent'[r] # sent[r] => sent[r] = None /\ C11_Decides(r)
        /\ storeFile' # storeFile /\ rpc'[r] # rpc[r] /\ rpc[r] # "idle" => C11_Saves(r)
        /\ C11_Saves(r) =>
              /\ Stored(reqSubject[r])' # Null
              /\ Stored(reqSubject[r])'.accessToken = Plain(updated[r].accessToken)
              /\ Stored(reqSubject[r])'.refreshToken = Plain(updated[r].refreshToken)
              /\ Stored(reqSubject[r])'.expiresAt = updated[r].expiresAt
              /\ result'[r].error = ""
              /\ result'[r].accessToken = Plain(updated[r].accessToken)
              /\ Plain(updated[r].accessToken) # reqTokenData[r].accessToken]_vars

\* a request found the access token stale and the refresh token good, called
\* the refresh endpoint, saved the answer and returned the new access token
C11_Witness ==
    \E r \in Requests :
        /\ rpc[r] = "done" /\ sent[r] # None
        /\ result[r].error = ""
        /\ result[r].accessToken = Plain(updated[r].accessToken)
        /\ Stored(reqSubject[r]) # Null
        /\ Stored(reqSubject[r]).accessToken = result[r].accessToken

\* C12: refresh_token_expired is terminal. Once a call for a subject has
\* signalled refresh_token_expired, and until Hop A completes again for that
\* subject, a call that arrives finds no record or a record whose access
\* token it does not return.
C12_ExpiredIsTerminal ==
    \A s \in Subjects :
        lifecycle[s] = "expired" =>
            \/ Stored(s) = Null
            \/ ~isAccessTokenValid(Stored(s), now)

\* C13: revoke leads to the unauthenticated state and stays there. After a
\* revoke removed the record of a subject, and until Hop A completes again
\* for that subject, the store holds no record for it.
C13_RevokedStaysRevoked ==
    \A s \in Subjects : lifecycle[s] = "revoked" => Stored(s) = Null

\* C32: when a call refreshes successfully, the step that saves replaces the
\* subject's record: the record on file before the step is still the
\* subject's, and after the step it holds the provider's new token pair and
\* expiries under the same createdAt; the access token the call returns is
\* the one a lookup of the subject yields right after.
C32_RefreshPersists ==
    [][\A r \in Requests :
        C11_Saves(r) =>
            LET s == reqSubject[r]
            IN /\ Stored(s) # Null
               /\ Stored(s)' # Null
               /\ Stored(s)'.createdAt = Stored(s).createdAt
               /\ Stored(s)'.accessToken = Plain(updated[r].accessToken)
               /\ Stored(s)'.refreshToken = Plain(updated[r].refreshToken)
               /\ Stored(s)'.expiresAt = updated[r].expiresAt
               /\ Stored(s)'.refreshExpiresAt = updated[r].refreshExpiresAt
               /\ result'[r].error = ""
               /\ result'[r].accessToken = Stored(s)'.accessToken]_vars

(***************************************************************************)
(* Claims about the FileTokenStore, checked under SpecStore.               *)
(***************************************************************************)
SpecStore == Init /\ [][NextStore]_vars

\* the entry of subject s in the store file
Entry(s) == readData(storeFile).tokens[s]

\* the envelope v encrypts a token the provider supplied, not the text
\* String() makes of a missing value
HoldsToken(v) ==
    /\ v.t = "env"
    /\ v.data.pt \notin {"", "undefined", "null", "[object Object]"}

\* C14: every record of the encrypted store holds an access token and a
\* refresh token supplied by the provider, each as a ciphertext envelope;
\* a save whose token data lacks one of them writes no record. (Stated of
\* the records a save wrote and nobody has edited since.)
C14_BothTokensPresent ==
    ~needsMigration(readData(storeFile)) =>
        \A s \in Subjects :
            (Entry(s) # Absent /\ saved[s] # NoRecord) =>
                HoldsToken(Entry(s).access_token) /\ HoldsToken(Entry(s).refresh_token)

\* the creation time an entry carries, in either shape (0: none)
CreatedAt(entry) == IF entry = Absent THEN 0 ELSE NumOr(entry.createdAt, entry.created_at)

\* the step is a saveConnectorToken call for subject s
Saves(s) ==
    storeCall'.n # storeCall.n /\ storeCall'.op = "save" /\ storeCall'.subject = s

\* C15: while the record of a subject exists, its creation time never
\* changes, whatever is called (a save over it, a save for another subject,
\* a migration of the file, a get, a revoke of another subject); and every
\* save leaves the record it wrote with updated_at equal to the time of the
\* save.
C15_CreatedAtImmutable ==
    [][\A s \in Subjects :
        /\ (CreatedAt(Entry(s)) # 0 /\ Entry(s)' # Absent)
              => CreatedAt(Entry(s)') = CreatedAt(Entry(s))
        /\ Saves(s) => Entry(s)' # Absent /\ Entry(s)'.updated_at = now
        /\ (Saves(s) /\ Entry(s) = Absent) => Entry(s)'.created_at = now]_vars

\* a record was saved over at a later time than it was created
C15_Witness ==
    \E s \in Subjects :
        /\ storeCall.op = "save" /\ storeCall.subject = s
        /\ Entry(s) # Absent
        /\ Entry(s).updated_at = now
        /\ Entry(s).created_at # 0 /\ Entry(s).created_at < now

\* the entry of s as a save finds it: after the migration of a legacy file
Found(s) ==
    IF needsMigration(readData(storeFile))
    THEN migrateEntry(Entry(s), now, EncryptionKey, CHOOSE iv \in LockIVs : TRUE)
    ELSE Entry(s)

\* the refresh grant of the entry has expired by time t
RefreshExpired(entry, t) == entry.refresh_expires_at # 0 /\ entry.refresh_expires_at < t

\* the entry was last updated more than the retention window before time t
Stale(entry, t) ==
    entry.updated_at # 0 /\ entry.updated_at + Days(DEFAULT_PRUNE_DAYS) < t

\* C16: pruning is a conjunction. A save removes the record of another
\* subject if and only if that record's refresh expiry lies in the past and
\* its updated_at is more than 30 days old, and leaves every other record
\* as it was; after a save no record with both properties is in the file;
\* no other call prunes.
C16_PruneIsConjunction ==
    [][/\ \A s, o \in Subjects :
            (Saves(s) /\ o # s /\ Found(o) # Absent) =>
                /\ Entry(o)' = Absent
                      <=> (RefreshExpired(Found(o), now) /\ Stale(Found(o), now))
                /\ Entry(o)' # Absent => Entry(o)' = Found(o)
       /\ (\E s \in Subjects : Saves(s)) =>
            \A o \in Subjects :
                Entry(o)' # Absent =>
                    ~(RefreshExpired(Entry(o)', now) /\ Stale(Entry(o)', now))
       /\ ~(\E s \in Subjects : Saves(s)) =>
            \A o \in Subjects :
                (Found(o) # Absent /\ Entry(o)' = Absent) =>
                    storeCall'.op = "revoke" /\ storeCall'.subject = o]_vars

\* a save for one subject has pruned the record saved for the other
C16_Witness ==
    \E s, o \in Subjects :
        /\ storeCall.op = "save" /\ storeCall.subject = s /\ o # s
        /\ saved[o] # NoRecord /\ Entry(o) = Absent
        /\ saved[o].refreshExpiresAt < now

\* the step is a getConnectorToken call for subject s with key key
Gets(s, key) ==
    /\ storeCall'.n # storeCall.n /\ storeCall'.op = "get"
    /\ storeCall'.subject = s /\ storeCall'.key = key

\* the envelope v was made with key and has not been altered since
Intact(v, key) == v.t = "env" /\ v.data.k = key /\ v.tag = <<key, v.iv, v.data.pt>>

\* C17: a decryption failure degrades to "credential absent". When a token
\* of the stored record of a subject does not decrypt (wrong key, altered
\* tag, malformed envelope), get returns null and leaves the file as it is,
\* and the resolution answers invalid_subject with 401, the same answer as
\* for a subject without a record; when both envelopes are intact, get
\* returns the record.
C17_DecryptFailureIsAbsent ==
    [][\A s \in Subjects, key \in StoreKeys :
        (Gets(s, key) /\ ~needsMigration(readData(storeFile))) =>
            /\ storeFile' = storeFile
            /\ (Entry(s) = Absent
                 \/ ~Intact(Entry(s).access_token, key)
                 \/ ~Intact(Entry(s).refresh_token, key))
                  => /\ storeReply'.record = Null
                     /\ storeReply'.error = "invalid_subject"
                     /\ storeReply'.status = 401
            /\ (/\ Entry(s) # Absent
                /\ Intact(Entry(s).access_token, key)
                /\ Intact(Entry(s).refresh_token, key))
                  => /\ storeReply'.record # Null
                     /\ storeReply'.error = ""]_vars

\* a get found the record of the subject and could not decrypt it
C17_Witness ==
    /\ storeCall.op = "get"
    /\ Entry(storeCall.subject) # Absent
    /\ \/ ~Intact(Entry(storeCall.subject).access_token, storeCall.key)
       \/ ~Intact(Entry(storeCall.subject).refresh_token, storeCall.key)
    /\ storeReply.record = Null /\ storeReply.status = 401

\* token data with a non-empty access token and refresh token was saved for
\* s, and no save or revoke for s (and no edit of its record) came after
SavedNonEmpty(s) ==
    /\ saved[s] # NoRecord
    /\ ~Falsy(saved[s].accessToken) /\ ~Falsy(saved[s].refreshToken)

\* the record equals the token data in the five fields of the round trip
SameFields(record, tokenData) ==
    /\ record # Null
    /\ record.accessToken = tokenData.accessToken.s
    /\ record.refreshToken = tokenData.refreshToken.s
    /\ record.expiresAt = tokenData.expiresAt
    /\ record.refreshExpiresAt = tokenData.refreshExpiresAt
    /\ record.scopes = Plain(tokenData.scopes)

\* C18 as stated: after a save for a subject with non-empty tokens, a get
\* for it with the same key and no save or revoke for it in between returns
\* the five fields as they were saved.
C18_RoundTrip ==
    [][\A s \in Subjects :
        (Gets(s, EncryptionKey) /\ SavedNonEmpty(s))
            => SameFields(storeReply'.record, saved[s])]_vars

\* C18, amended: after a save for a subject with non-empty tokens, a get
\* for it with the same key and no save or revoke for it in between returns
\* the five fields as they were saved, unless a save for another subject
\* has pruned the record since; then the refresh grant of the saved data
\* has expired and get returns null.
C18_RoundTripUnlessPruned ==
    [][\A s \in Subjects :
        (Gets(s, EncryptionKey) /\ SavedNonEmpty(s)) =>
            IF Entry(s) # Absent
            THEN SameFields(storeReply'.record, saved[s])
            ELSE /\ storeReply'.record = Null
                 /\ saved[s].refreshExpiresAt < now]_vars

\* a get returned what was saved at an earlier time
C18_Witness ==
    \E s \in Subjects :
        /\ storeCall.op = "get" /\ storeCall.subject = s
        /\ storeCall.key = EncryptionKey
        /\ SavedNonEmpty(s)
        /\ SameFields(storeReply.record, saved[s])
        /\ storeReply.record.updatedAt < now

\* the step is a revoke request that passed the token check, for subject s
Revokes(s) ==
    storeCall'.n # storeCall.n /\ storeCall'.op = "revoke" /\ storeCall'.subject = s

OnAllowList(u) ==
    u.protocol = "https:" /\ u.hostname = "script.google.com" /\ u.path = "/macros/s/"

\* the step is a request to /oauth/authorize
C20_Authorizes == Arrives /\ req'.handler = "authorize"

\* the step is the end of a callback whose token exchange was in flight
C20_CallbackEnds == pending' # pending /\ pending' \subseteq pending

\* C20: no open redirect. /oauth/authorize stores a state entry and
\* redirects only for response_type 'code', the configured client_id and a
\* redirect_uri on the allow-list; a request it refuses stores nothing;
\* every oauth-flow state entry, stored or held by a callback in flight,
\* carries an allow-listed redirect_uri, and every redirect a callback
\* sends goes to the allow-listed redirect_uri of its state entry.
C20_NoOpenRedirect ==
    /\ [][C20_Authorizes =>
            /\ (stateStore' # stateStore \/ resp'.status = 302) =>
                  /\ req'.response_type = "code"
                  /\ req'.client_id = LOOKER_CLIENT_ID
                  /\ OnAllowList(req'.redirect_uri)
                  /\ stateStore' # stateStore /\ resp'.status = 302
                  /\ resp'.location = TIKTOK_AUTH_URL
                  /\ stateStore'[generated'].data.redirectUri = req'.redirect_uri
            /\ resp'.status # 302 =>
                  /\ resp'.status = 400
                  /\ stateStore' = stateStore /\ generated' = generated]_vars
    /\ [](\A k \in RandomTokens :
            (stateStore[k] # Absent /\ stateStore[k].data.flow = "oauth")
                => OnAllowList(stateStore[k].data.redirectUri))
    /\ [](\A callback \in pending :
            callback.entry.data.flow = "oauth"
                => OnAllowList(callback.entry.data.redirectUri))
    /\ [][(C20_CallbackEnds /\ resp'.status = 302) =>
            /\ OnAllowList(resp'.location)
            /\ \E callback \in pending \ pending' :
                  /\ callback.entry.data.flow = "oauth"
                  /\ resp'.location = callback.entry.data.redirectUri]_vars

\* a callback of the oauth flow has redirected the browser to the
\* redirect_uri given to /oauth/authorize, with a code
C20_Witness ==
    /\ resp.status = 302 /\ resp.code # Missing
    /\ OnAllowList(resp.location)
    /\ req.handler # "authorize"

\* an authorization code is added to authCodeStore in this step
C21_Mints == \E k \in RandomTokens : authCodeStore[k] = Absent /\ authCodeStore'[k] # Absent

\* C21: bridge completion. /oauth/authorize stores the caller's
\* redirect_uri and state; a callback of the bridge flow that succeeds
\* redirects to that redirect_uri with that state and a fresh code bound to
\* the subject and the scopes of the record it has just saved; a code is
\* minted only there, after the save; a direct-flow callback mints none.
C21_BridgeCompletion ==
    [][/\ (C20_Authorizes /\ resp'.status = 302) =>
            /\ stateStore'[generated'].data.flow = "oauth"
            /\ stateStore'[generated'].data.redirectUri = req'.redirect_uri
            /\ stateStore'[generated'].data.lookerState = req'.looker_state
       /\ (C20_CallbackEnds /\ resp'.status = 302) =>
            \E callback \in pending \ pending' :
                /\ callback.entry.data.flow = "oauth"
                /\ resp'.location = callback.entry.data.redirectUri
                /\ resp'.state = callback.entry.data.lookerState
                /\ resp'.code = generated' /\ generated' = generated + 1
                /\ authCodeStore[resp'.code] = Absent
                /\ authCodeStore'[resp'.code] # Absent
                /\ authCodeStore'[resp'.code].expiresAt = now + AUTH_CODE_TTL_MS
                /\ LET bound == authCodeStore'[resp'.code].data
                       entries == readData(storeFile').tokens
                   IN /\ ~Falsy(bound.subject)
                      /\ entries[bound.subject.s] # Absent
                      /\ entries[bound.subject.s].updated_at = now
                      /\ entries[bound.subject.s].open_id = bound.subject.s
                      /\ entries[bound.subject.s].scopes = Plain(bound.scopes)
       /\ C21_Mints =>
            /\ C20_CallbackEnds /\ resp'.status = 302
            /\ \A k \in RandomTokens :
                  authCodeStore'[k] # authCodeStore[k] => k = resp'.code
       /\ (C20_CallbackEnds /\ resp'.status # 302) =>
            authCodeStore' = authCodeStore
       /\ (C20_CallbackEnds
           /\ \A callback \in pending \ pending' : callback.entry.data.flow = "direct")
            => authCodeStore' = authCodeStore /\ resp'.location = NoUri]_vars

\* a bridge-flow callback has redirected with the caller's state and a code
\* that is stored, bound to the subject whose record is on file
C21_Witness ==
    /\ resp.status = 302 /\ resp.state = "ls2" /\ resp.location = GoodUri
    /\ resp.code # Missing
    /\ authCodeStore[resp.code] # Absent
    /\ Entry(authCodeStore[resp.code].data.subject.s) # Absent

\* no entry of the file holds a token in a plaintext field
NoPlaintext(file) ==
    \A s \in Subjects :
        readData(file).tokens[s] # Absent =>
            /\ Falsy(readData(file).tokens[s].accessToken)
            /\ Falsy(readData(file).tokens[s].refreshToken)

\* the step is a save, get or revoke that ran on a file with a legacy entry
MigratingCall ==
    /\ storeCall'.n # storeCall.n /\ storeCall'.op \in {"save", "get", "revoke"}
    /\ ~NoPlaintext(storeFile)

\* the legacy entry has both tokens, in either shape
HasBothTokens(entry) ==
    /\ ~Falsy(Or(entry.accessToken, entry.access_token))
    /\ ~Falsy(Or(entry.refreshToken, entry.refresh_token))

\* the new entry holds the tokens of the legacy entry in envelopes made with
\* key, and its expiries and timestamps where the legacy entry had them
Rewritten(legacy, entry, key) ==
    /\ entry # Absent
    /\ Intact(entry.access_token, key)
    /\ Intact(entry.refresh_token, key)
    /\ entry.access_token.data.pt = StringOf(Or(legacy.accessToken, legacy.access_token))
    /\ entry.refresh_token.data.pt = StringOf(Or(legacy.refreshToken, legacy.refresh_token))
    /\ legacy.expiresAt # 0 => entry.expires_at = legacy.expiresAt
    /\ legacy.refreshExpiresAt # 0 => entry.refresh_expires_at = legacy.refreshExpiresAt
    /\ legacy.createdAt # 0 => entry.created_at = legacy.createdAt
    /\ legacy.updatedAt # 0 => entry.updated_at = legacy.updatedAt

\* the call of the step saves or revokes the record of subject o itself
OwnSubject(o) == storeCall'.op \in {"save", "revoke"} /\ storeCall'.subject = o

\* C28 as stated: after a save, get or revoke on a file with legacy plaintext
\* records the file holds no plaintext token; every legacy record with both
\* tokens (other than the one the call itself saves or revokes) is there as
\* envelopes with its expiries and timestamps, and every legacy record that
\* lacks a token is gone.
C28_Migration ==
    [][MigratingCall =>
          /\ NoPlaintext(storeFile')
          /\ \A o \in Subjects :
                (Entry(o) # Absent /\ ~OwnSubject(o)) =>
                    IF HasBothTokens(Entry(o))
                    THEN Rewritten(Entry(o), readData(storeFile').tokens[o], storeCall'.key)
                    ELSE readData(storeFile').tokens[o] = Absent]_vars

\* C28, amended: as above, except that a save prunes, after the migration,
\* the migrated record of another subject whose refresh expiry lies in the
\* past and whose updated_at is more than 30 days old: that record is gone.
C28_MigrationUnlessPruned ==
    [][MigratingCall =>
          /\ NoPlaintext(storeFile')
          /\ \A o \in Subjects :
                (Entry(o) # Absent /\ ~OwnSubject(o)) =>
                    IF HasBothTokens(Entry(o))
                    THEN IF /\ storeCall'.op = "save"
                            /\ RefreshExpired(Found(o), now) /\ Stale(Found(o), now)
                         THEN readData(storeFile').tokens[o] = Absent
                         ELSE Rewritten(Entry(o), readData(storeFile').tokens[o],
                                        storeCall'.key)
                    ELSE readData(storeFile').tokens[o] = Absent]_vars

\* a get has migrated a legacy file written some time before
C28_Witness ==
    /\ storeCall.n = 1 /\ storeCall.op = "get" /\ storeCall.wrote
    /\ now > Ms(10)
    /\ Entry("s1") # Absent /\ Intact(Entry("s1").access_token, storeCall.key)
    /\ Entry("s1").created_at = Ms(10)
    /\ Entry("s2") = Absent

\* a request to /oauth/token ends: the authorization_code grant of the
\* configured client with a code that is in authCodeStore and has not expired
C26_RedeemsLiveCode ==
    /\ requests' = requests + 1 /\ req'.handler = "token"
    /\ req'.grant_type = "authorization_code"
    /\ req'.client_id = LOOKER_CLIENT_ID /\ req'.client_secret = LOOKER_CLIENT_SECRET
    /\ req'.authCode # Missing
    /\ authCodeStore[req'.authCode] # Absent
    /\ now < authCodeStore[req'.authCode].expiresAt

\* C26: the handshake ends well. When the code that the callback put in its
\* redirect is presented to /oauth/token before it expires, the answer is 200
\* with an access token, a refresh token and expires_in = 3600; a protected
\* endpoint accepts that access token (verifyBackendJwt) for the whole hour,
\* the token's subject is the one the code was bound to, and the store holds
\* the provider record of that subject, with the access token the provider
\* gave, still valid, for getAccessTokenForSubject to return.
C26_HandshakeCompletes ==
    [][C26_RedeemsLiveCode =>
          LET bound == authCodeStore[req'.authCode].data
              td == getConnectorTokenResult(readData(storeFile), bound.subject.s,
                                            EncryptionKey)
          IN /\ resp'.status = 200
             /\ resp'.access_token # NoToken /\ resp'.refresh_token # NoToken
             /\ resp'.expires_in = 3600
             /\ resp'.access_token.sub = bound.subject
             /\ resp'.access_token.typ = "access" /\ resp'.refresh_token.typ = "refresh"
             /\ verifyBackendJwt(resp'.access_token, now)
             /\ verifyBackendJwt(resp'.access_token,
                                 now + Seconds(resp'.expires_in) - Ms(1000))
             /\ td # Null
             /\ td.openId = bound.subject.s
             /\ td.accessToken = "at1" /\ td.refreshToken = "rt1"
             /\ isAccessTokenValid(td, now)]_vars

\* the whole handshake in four requests: authorize, callback, the redirect
\* with the code, and the grant
C26_Witness ==
    /\ requests = 3 /\ generated = 2
    /\ req.handler = "token" /\ req.grant_type = "authorization_code"
    /\ resp.status = 200 /\ resp.expires_in = 3600
    /\ resp.access_token # NoToken
    /\ redeemed = <<2>>
    /\ Len(authorised) = 1

(***************************************************************************)
(* Claims about the protected endpoints, checked under SpecResource.       *)
(***************************************************************************)
SpecResource == Init /\ [][NextResource]_vars

\* the bearer token of the current request has a valid signature, was
\* unexpired when the request arrived and is an access token
Authenticated ==
    /\ hreq.bearer # NoToken
    /\ hreq.bearer.secret = BACKEND_JWT_SECRET
    /\ Sec(hreq.at) < hreq.bearer.exp
    /\ hreq.bearer.typ = "access"

Fetches(e) == e.kind \in {"fetch user", "fetch videos"}

\* C22: a protected endpoint (user, videos, revoke) makes no store call and
\* no provider call unless the bearer token has a valid signature, is
\* unexpired and is an access token; every other request, a refresh token
\* included, is answered 401 with nothing done. The provider's resource API
\* is fetched only after getAccessTokenForSubject returned an access token
\* for the subject of the bearer token, and with that token.
C22_AuthenticatedFirst ==
    /\ [](effects # <<>> \/ hpc \notin {"idle", "done"} => Authenticated)
    /\ [](hpc = "done" /\ ~Authenticated =>
              hres.status = 401 /\ effects = <<>>
              /\ hres.error \in {"missing_access_token", "invalid_access_token"})
    /\ [](\A i \in 1..Len(effects) :
              /\ effects[i].subject = hreq.bearer.sub.s
              /\ Fetches(effects[i]) =>
                    /\ i = Len(effects) /\ i > 1
                    /\ effects[1].kind = "getConnectorToken"
                    /\ effects[i].token # ""
                    /\ effects[i - 1].kind \in {"getConnectorToken", "saveConnectorToken"}
                    /\ effects[i].token = effects[i - 1].token)
    /\ [][effects' # effects /\ effects' # <<>> /\ Fetches(effects'[Len(effects')]) =>
              /\ hpc = "query" /\ hres.error = ""
              /\ effects'[Len(effects')].token = hres.accessToken]_vars

\* a request with a fresh access token whose subject's stored access token had
\* expired: the token was refreshed, saved and then used on the resource API
C22_Witness ==
    /\ hpc = "done" /\ hres.status = 200 /\ Len(effects) = 4
    /\ effects[2].kind = "refreshAccessToken"
    /\ Fetches(effects[4])

(***************************************************************************)
(* The handlers that call the store, with the store failing (SpecOutage):  *)
(* the provider callback of the bridge flow and the three protected        *)
(* endpoints on one store file, every store call free to end with the      *)
(* lock timeout.                                                           *)
(***************************************************************************)
ConnectedAnswer == [ok |-> TRUE, open_id |-> Str("s1"), scope |-> Str("video.list")]
FreshBearer ==
    sign(Str("s1"), Null, "access", BACKEND_JWT_SECRET, BACKEND_TOKEN_TTL_SECONDS, now)

NextOutage ==
    \/ Authorize("ls", GoodUri, "code", LOOKER_CLIENT_ID) /\ UNCHANGED notBridge
    \/ Callback("", "c", generated) /\ UNCHANGED notBridge
    \/ \E callback \in pending, lockTimeout \in BOOLEAN :
          CallbackExchanged(callback, ConnectedAnswer, lockTimeout) /\ UNCHANGED notBridge
    \/ \E endpoint \in Endpoints, lockTimeout \in BOOLEAN :
          ResourceArrive(endpoint, FreshBearer, TRUE, lockTimeout) /\ UNCHANGED notResource
    \/ \E lockTimeout \in BOOLEAN : ResourceResolve(lockTimeout) /\ UNCHANGED notResource
    \/ \E ok \in BOOLEAN, lockTimeout \in BOOLEAN :
          ResourceRefreshed(ok, lockTimeout) /\ UNCHANGED notResource
    \/ ResourceCall /\ UNCHANGED notResource
    \/ ResourceTick(Seconds(3600)) /\ UNCHANGED notResource

SpecOutage == Init /\ [][NextOutage]_vars

\* the step in which a callback's catch received the lock timeout
CallbackTimedOut == pending' # pending /\ resp'.thrown = LockTimeoutError
\* the step in which a protected endpoint's store call threw the lock timeout
EndpointTimedOut ==
    /\ handled' # handled \/ effects' # effects
    /\ effects' # <<>>
    /\ effects'[Len(effects')].kind = LockTimeoutError
ServerFault(status) == status >= 500 /\ status <= 599

\* C29: when a store call made by the provider callback, by a resource
\* endpoint or by the revoke endpoint fails with the lock timeout, the handler
\* answers with a 5xx status and the store file is as it was; the callback
\* mints no authorization code and redirects nowhere, and a resource endpoint
\* does not go on to the provider's resource API.
C29_LockTimeoutIs5xx ==
    /\ [][CallbackTimedOut =>
              /\ ServerFault(resp'.status)
              /\ storeFile' = storeFile
              /\ authCodeStore' = authCodeStore /\ generated' = generated
              /\ resp'.location = NoUri /\ resp'.code = Missing]_vars
    /\ [][EndpointTimedOut =>
              /\ ServerFault(hres'.status) /\ hpc' = "done"
              /\ storeFile' = storeFile
              /\ \A i \in 1..Len(effects') : ~Fetches(effects'[i])]_vars

\* a bridge callback was answered 500 after the lock timeout, with an
\* earlier connection on file, and a resource request whose stored access
\* token had expired then lost its refreshed tokens to the lock timeout
C29_Witness ==
    /\ resp.thrown = LockTimeoutError /\ req.handler = "callback"
    /\ storeFile # NoFile
    /\ hpc = "done" /\ hres = ServerError /\ Len(effects) = 3
    /\ effects[2].kind = "refreshAccessToken"
    /\ effects[3].kind = LockTimeoutError

(***************************************************************************)
(* The token endpoint beside the store (SpecGrant): the bridge handshake,  *)
(* POST /oauth/token with every kind of body, each naming a code, and the  *)
(* protected endpoints called with the tokens the endpoint has issued.     *)
(***************************************************************************)
GrantBody(clientId, clientSecret, grantType, code, refreshToken) ==
    [client_id |-> clientId, client_secret |-> clientSecret, grant_type |-> grantType,
     code |-> code, refresh_token |-> refreshToken]
NamedCodes == {Missing, generated} \cup {k \in RandomTokens : authCodeStore[k] # Absent}
GrantBodies ==
    {GrantBody(LOOKER_CLIENT_ID, LOOKER_CLIENT_SECRET, "authorization_code", code, NoToken) :
        code \in NamedCodes}
    \cup {GrantBody("other-client", LOOKER_CLIENT_SECRET, "authorization_code", code, NoToken) :
        code \in NamedCodes}
    \cup {GrantBody(LOOKER_CLIENT_ID, "wrong-secret", "authorization_code", code, NoToken) :
        code \in NamedCodes}
    \cup {GrantBody(LOOKER_CLIENT_ID, LOOKER_CLIENT_SECRET, "password", code, NoToken) :
        code \in NamedCodes}
    \cup {GrantBody(LOOKER_CLIENT_ID, LOOKER_CLIENT_SECRET, "refresh_token", code, token) :
        code \in NamedCodes, token \in {NoToken} \cup issued}

NextGrant ==
    \/ Authorize("ls", GoodUri, "code", LOOKER_CLIENT_ID) /\ UNCHANGED notBridge
    \/ Callback("", "c", generated) /\ UNCHANGED notBridge
    \/ \E callback \in pending :
          CallbackExchanged(callback, ConnectedAnswer, FALSE) /\ UNCHANGED notBridge
    \/ \E b \in GrantBodies :
          Token(b.client_id, b.client_secret, b.grant_type, b.code, b.refresh_token)
          /\ UNCHANGED notBridge
    \/ \E endpoint \in {"user", "revoke"}, bearer \in issued \cup {FreshBearer} :
          ResourceArrive(endpoint, bearer, TRUE, FALSE) /\ UNCHANGED notResource
    \/ ResourceResolve(FALSE) /\ UNCHANGED notResource
    \/ ResourceCall /\ UNCHANGED notResource
    \/ BridgeTick(AUTH_CODE_TTL_MS - Ms(1000)) /\ UNCHANGED notBridge

SpecGrant == Init /\ [][NextGrant]_vars

\* the step is a request to /oauth/token
TokenRequest == requests' = requests + 1 /\ req'.handler = "token"
Rejections == {"invalid_client", "invalid_request", "unsupported_grant_type"}

\* C36: a request to /oauth/token that is answered invalid_client,
\* invalid_request or unsupported_grant_type leaves authCodeStore as it was,
\* whatever code it named; and an authorization_code grant of the configured
\* client for a code that is in the store and has not expired is answered
\* 200 with tokens for the subject the code is bound to, whatever requests
\* were rejected before.
C36_RejectionKeepsCode ==
    /\ [][TokenRequest /\ resp'.body \in Rejections =>
              /\ resp'.status = 400
              /\ authCodeStore' = authCodeStore /\ redeemed' = redeemed
              /\ issued' = issued]_vars
    /\ [][C26_RedeemsLiveCode =>
              /\ resp'.status = 200
              /\ resp'.access_token # NoToken
              /\ resp'.access_token.sub = authCodeStore[req'.authCode].data.subject
              /\ authCodeStore'[req'.authCode] = Absent]_vars

\* the code of the handshake was named in a request that was rejected, after
\* most of its ten minutes, and is still in the store and unexpired
C36_Witness ==
    /\ req.handler = "token" /\ resp.body \in Rejections
    /\ req.authCode # Missing
    /\ authCodeStore[req.authCode] # Absent
    /\ now > authCodeStore[req.authCode].expiresAt - AUTH_CODE_TTL_MS
    /\ now < authCodeStore[req.authCode].expiresAt

\* the step is a refresh_token grant of the configured client with a refresh
\* token this server signed and that has not expired
RefreshGrantOfLiveToken ==
    /\ TokenRequest /\ req'.grant_type = "refresh_token"
    /\ req'.client_id = LOOKER_CLIENT_ID /\ req'.client_secret = LOOKER_CLIENT_SECRET
    /\ req'.refresh_token # NoToken
    /\ verify(req'.refresh_token, BACKEND_JWT_SECRET, now)
    /\ TypeIsRefresh(req'.refresh_token)
\* the step in which a protected endpoint looks up the record of its caller
LooksUpSubject == hpc = "resolve" /\ hpc' # "resolve"

\* C37: /oauth/token leaves the token store alone and makes no call of it.
\* Whether or not the subject has a record, an authorization_code grant for a
\* live code and a refresh_token grant with a live refresh token are answered
\* 200 with tokens for that subject, and every access token the endpoint has
\* issued verifies until its own expiry; a protected endpoint called for a
\* subject without a record answers 401 invalid_subject.
C37_TokenEndpointIgnoresStore ==
    /\ [][TokenRequest => storeFile' = storeFile /\ effects' = effects]_vars
    /\ [][RefreshGrantOfLiveToken =>
              /\ resp'.status = 200
              /\ resp'.access_token.sub = req'.refresh_token.sub
              /\ resp'.refresh_token = req'.refresh_token]_vars
    /\ [][C26_RedeemsLiveCode /\ Stored("s1") = Null => resp'.status = 200]_vars
    /\ [](\A token \in issued :
              token.typ = "access" /\ Sec(now) < token.exp => verifyBackendJwt(token, now))
    /\ [][LooksUpSubject /\ Stored(hreq.bearer.sub.s) = Null =>
              hres' = Failed("invalid_subject") /\ hres'.status = 401]_vars

\* after a revoke, a protected endpoint has answered invalid_subject to an
\* access token issued before it, and a refresh_token grant has succeeded
C37_Witness ==
    /\ Stored("s1") = Null /\ storeFile # NoFile
    /\ hreq.endpoint = "user" /\ hreq.bearer \in issued
    /\ hres.error = "invalid_subject"
    /\ req.handler = "token" /\ req.grant_type = "refresh_token" /\ resp.status = 200
    /\ verifyBackendJwt(resp.access_token, now)

(***************************************************************************)
(* Claims about functions, checked under SpecValidity and SpecListing.     *)
(***************************************************************************)
SpecValidity == Init /\ [][NextValidity]_vars
SpecListing == Init /\ [][NextListing]_vars

FiveMinutes == Seconds(5 * 60)

\* C23: isAccessTokenValid is true exactly when the expiry is present and
\* now < expiresAt - 5 min, and isRefreshTokenValid exactly when the refresh
\* expiry is present and now < refreshExpiresAt - 5 min: false at
\* now = expiry - buffer, true one clock unit earlier, false when the
\* expiry is missing.
C23_SafetyBuffer ==
    probe # NoProbe =>
        /\ probe.access <=> (probe.expiresAt # 0 /\ probe.at < probe.expiresAt - FiveMinutes)
        /\ probe.refresh <=>
               (probe.refreshExpiresAt # 0 /\ probe.at < probe.refreshExpiresAt - FiveMinutes)
        /\ probe.at = probe.expiresAt - FiveMinutes => ~probe.access
        /\ probe.at = probe.refreshExpiresAt - FiveMinutes => ~probe.refresh
        /\ probe.expiresAt # 0 /\ probe.at = probe.expiresAt - FiveMinutes - 1
               => probe.access
        /\ probe.refreshExpiresAt # 0 /\ probe.at = probe.refreshExpiresAt - FiveMinutes - 1
               => probe.refresh
        /\ probe.expiresAt = 0 => ~probe.access
        /\ probe.refreshExpiresAt = 0 => ~probe.refresh

\* an access token one unit before the buffer and a refresh token at its start
C23_Witness ==
    /\ probe.expiresAt # 0 /\ probe.at = probe.expiresAt - FiveMinutes - 1 /\ probe.access
    /\ probe.refreshExpiresAt # 0 /\ probe.at = probe.refreshExpiresAt - FiveMinutes
    /\ ~probe.refresh

\* the file with every token field, plaintext or envelope, blanked
Redacted(file) ==
    [s \in Subjects |->
        IF readData(file).tokens[s] = Absent THEN Absent
        ELSE [readData(file).tokens[s] EXCEPT
                 !.access_token = Undefined, !.refresh_token = Undefined,
                 !.accessToken = Undefined, !.refreshToken = Undefined]]

\* the token values a file holds in plaintext or under encryption, and the
\* labels safeTokenLabel would make of them
TokenMaterial(file) ==
    LET held == UNION {{Plain(e.accessToken), Plain(e.refreshToken)}
                        \cup (IF e.access_token.t = "env" THEN {e.access_token.data.pt}
                              ELSE {})
                        \cup (IF e.refresh_token.t = "env" THEN {e.refresh_token.data.pt}
                              ELSE {}) :
                       e \in {readData(file).tokens[s] : s \in Subjects} \ {Absent}} \ {""}
    IN held \cup {safeTokenLabel(v) : v \in held}

RowsAreSafe(file, out) ==
    \A row \in out :
        /\ DOMAIN row = {"token_prefix", "open_id", "scopes", "expires_at",
                         "refresh_expires_at", "created_at", "updated_at"}
        /\ {row.token_prefix, row.open_id, row.scopes} \cap TokenMaterial(file) = {}
        /\ \E s \in Subjects : row.token_prefix = safeTokenLabel(s)

SpecStartup == Init /\ [][NextStartup]_vars

\* the path is the directory or lies below it
Inside(dir, p) == Len(p) >= Len(dir) /\ SubSeq(p, 1, Len(dir)) = dir

\* C30: the server listens only if the store file path and the lock file
\* path both lie outside the publicly served directory; when either lies
\* inside it, startup does not get past the check and no request is served.
C30_StartupPathCheck ==
    /\ boot.phase = "listening" =>
          ~Inside(PUBLIC_DIR, boot.storePath) /\ ~Inside(PUBLIC_DIR, boot.lockPath)
    /\ boot.phase # "start"
       /\ (Inside(PUBLIC_DIR, boot.storePath) \/ Inside(PUBLIC_DIR, boot.lockPath)) =>
          boot.phase \in {"configured", "aborted"} /\ ~boot.served

(***************************************************************************)
(* Claims about the sweep of a registry, checked under SpecSweep: the      *)
(* timer fires when its interval has passed, and time does pass.           *)
(***************************************************************************)
SpecSweep ==
    /\ Init /\ [][NextSweep]_vars
    /\ WF_vars(TimerSweep /\ UNCHANGED notSweep)
    /\ WF_vars(\E d \in {cleanupInterval(TOKEN_STATE_TTL_MS) \div 2, nextSweep - now} :
                  TimerTick(d) /\ UNCHANGED notSweep)

\* C25: a key that was saved is in time absent from the map again, consumed
\* or not: the sweep deletes an entry at its first firing at or after
\* expiresAt, so no entry is in the map one interval after its expiry; and
\* the sweep deletes no entry whose expiresAt is still ahead.
C25_SweepBoundsMemory ==
    /\ \A k \in RegKeys : registry[k] # Absent ~> registry[k] = Absent
    /\ [](\A k \in RegKeys :
            registry[k] # Absent =>
                now < registry[k].expiresAt + cleanupInterval(TOKEN_STATE_TTL_MS))
    /\ [][\A k \in RegKeys :
            registry[k] # Absent /\ registry'[k] = Absent /\ nextSweep' # nextSweep
                => registry[k].expiresAt <= now]_vars

\* the sweep has deleted an entry that no consume asked for, and kept another
C25_Witness ==
    /\ calls = 2 /\ returned = {}
    /\ lastCall.op = "save"
    /\ Cardinality({k \in RegKeys : registry[k] # Absent}) = 1
    /\ now > Ms(10) + TOKEN_STATE_TTL_MS

(***************************************************************************)
(* Claims about waiting for the lock, checked under SpecWait: a caller of  *)
(* a live process takes the next step of withLock's loop whenever it can,  *)
(* its retry timer fires, and time passes while a caller sleeps. Nothing   *)
(* is assumed of the callers that hold the lock.                           *)
(***************************************************************************)
SpecWait ==
    /\ Init /\ [][NextWait]_vars
    /\ \A c \in Contenders : SF_vars(Acquiring(c))
    /\ WF_vars(\E d \in {LOCK_RETRY_DELAY_MS, LOCK_TIMEOUT_MS} : WaitTick(d))

Waiting(c) == pc[c] \in {"open", "writepid", "stale_read", "stale_unlink", "sleep"}

\* C27: no caller waits for the lock forever, whatever the holders of the
\* lock and the other contenders do: every call of withLock comes to run its
\* body or throws the lock timeout (or its process dies).
C27_NoIndefiniteHang ==
    \A c \in Contenders : Waiting(c) ~> ~Waiting(c)

(***************************************************************************)
(* Claims about the connector's pagination, checked under SpecPages: the   *)
(* loop is taken to go on (weak fairness of its steps).                    *)
(***************************************************************************)
SpecPages == Init /\ [][NextPages]_vars /\ WF_vars(NextPages)

\* C31: fetchPaginatedVideos ends, by returning or by throwing, after at
\* most 10 page requests; what it returns has at most maxVideos videos; and
\* it makes a further page request only after a page that was answered 200
\* with videos and has_more === true.
C31_BoundedPagination ==
    /\ [](pager.requestCount <= 10)
    /\ [](pager.pc = "done" =>
              /\ Len(pager.returned) <= pager.maxVideos
              /\ pager.returned = SubSeq(pager.allVideos, 1, Len(pager.returned)))
    /\ [][pager'.requestCount > pager.requestCount /\ pager.requestCount > 0 =>
              pager.page = "more"]_vars
    /\ [](pager.page \notin {"none", "more"} => pager.pc # "loop" \/ ~keepsFetching(pager))
    /\ (pager.pc = "loop" ~> pager.pc \in {"done", "thrown"})

\* ten pages of 20 were fetched, every one announcing more, and the default
\* limit of 200 videos was returned
C31_Witness ==
    /\ pager.pc = "done" /\ pager.requestCount = 10 /\ pager.hasMore
    /\ pager.maxVideos = MAX_VIDEOS_TO_FETCH /\ Len(pager.returned) = MAX_VIDEOS_TO_FETCH

(***************************************************************************)
(* Resource requests against a store file that was on disk when the server *)
(* started (SpecUpgrade): a file of the plaintext store, or one in which a *)
(* plaintext entry stands beside an entry already encrypted.               *)
(***************************************************************************)
\* the first plaintext file with the entry save() writes for s2 beside it
MixedFiles ==
    {[file EXCEPT !.tokens["s2"] =
         saveConnectorTokenData(EmptyData, "s2", TokenDataFor("s2"), Ms(10),
                                EncryptionKey, "n0").tokens["s2"]] :
        file \in {f \in LegacyFiles : f.tokens["s1"].createdAt # 0}}

NextUpgrade ==
    \/ \E file \in LegacyFiles \cup MixedFiles : StoreLegacy(file) /\ UNCHANGED notStore
    \/ Connect("s1") /\ UNCHANGED notRefresh
    \/ \E r \in Requests, s \in Subjects : ResolveGet(r, s) /\ UNCHANGED notRefresh
    \/ \E r \in Requests : ResolveCheck(r) /\ UNCHANGED notRefresh
    \/ \E r \in Requests : ResolveRefreshed(r) /\ UNCHANGED notRefresh
    \/ \E r \in Requests : ResolveRefused(r) /\ UNCHANGED notRefresh
    \/ \E r \in Requests : ResolveSave(r) /\ UNCHANGED notRefresh
    \/ RefreshTick(Seconds(3600)) /\ UNCHANGED notRefresh

SpecUpgrade == Init /\ [][NextUpgrade]_vars

\* the step in which request r looks up its subject's record
LooksUp(r) == rpc[r] = "idle" /\ rpc'[r] = "got"
\* the access token of record td outlives the safety buffer
OutlivesBuffer(td) == td # Null /\ td.expiresAt - TOKEN_REFRESH_BUFFER_MS > now

\* C38: a call of getAccessTokenForSubject that finds a stored access token
\* which outlives the safety buffer returns that token, sends nothing to the
\* provider and leaves the store file as it was, from its lookup to its
\* return.
C38_ValidTokenNoWrite ==
    [][\A r \in Requests :
        /\ LooksUp(r) /\ OutlivesBuffer(reqTokenData'[r]) => storeFile' = storeFile
        /\ C11_Decides(r) /\ OutlivesBuffer(reqTokenData[r]) =>
              /\ result'[r] = Returned(reqTokenData[r].accessToken)
              /\ rpc'[r] = "done" /\ sent' = sent /\ minted' = minted
              /\ storeFile' = storeFile]_vars

\* C38, amended: the same, for a store file that holds no plaintext entry;
\* the record a lookup yields, updatedAt included, is then the same before
\* and after the call. (With a plaintext entry in the file the lookup
\* rewrites the file in encrypted shape before it returns the token.)
C38_ValidTokenNoWriteMigrated ==
    [][\A r \in Requests :
        /\ LooksUp(r) /\ OutlivesBuffer(reqTokenData'[r])
              /\ ~needsMigration(readData(storeFile)) =>
              /\ storeFile' = storeFile
              /\ reqTokenData'[r] = Stored(reqSubject'[r])
        /\ C11_Decides(r) /\ OutlivesBuffer(reqTokenData[r]) =>
              /\ result'[r] = Returned(reqTokenData[r].accessToken)
              /\ rpc'[r] = "done" /\ sent' = sent /\ minted' = minted
              /\ storeFile' = storeFile
              /\ Stored(reqSubject[r])' = Stored(reqSubject[r])]_vars

\* a request returned the access token of the record a connect had saved
C38_Witness ==
    \E r \in Requests :
        /\ rpc[r] = "done" /\ sent[r] = None /\ minted = 1
        /\ Stored(reqSubject[r]) # Null
        /\ result[r] = Returned(Stored(reqSubject[r]).accessToken)
        /\ OutlivesBuffer(Stored(reqSubject[r]))

\* the call of request r ended with the provider's refusal of its refresh
Refused(r) == rpc[r] = "done" /\ result[r].error = "token_refresh_failed"

\* C39: when the provider answers a refresh with a non-ok response, the call
\* returns token_refresh_failed with status 401 and does not touch the store
\* file; a call for the same subject that reads the record the refused call
\* had read, while its refresh token is still valid, posts the same refresh
\* token to the provider again.
C39_RefusedRefreshKeepsRecord ==
    /\ [][\A r \in Requests :
            rpc[r] = "refreshing" /\ rpc'[r] = "done" =>
                /\ result'[r].error = "token_refresh_failed" /\ result'[r].status = 401
                /\ result'[r].accessToken = ""
                /\ storeFile' = storeFile]_vars
    /\ [][\A q \in Requests : \A r \in Requests \ {q} :
            /\ Refused(q) /\ LooksUp(r) /\ reqSubject'[r] = reqSubject[q]
               /\ Stored(reqSubject[q]) = reqTokenData[q] =>
                   reqTokenData'[r] = reqTokenData[q]
            /\ Refused(q) /\ C11_Decides(r) /\ reqTokenData[r] = reqTokenData[q]
               /\ isRefreshTokenValid(reqTokenData[r], now) =>
                   rpc'[r] = "refreshing" /\ sent'[r] = sent[q]]_vars

\* the first request was refused, the record it had read is still on file,
\* and the second request has posted the same refresh token
C39_Witness ==
    /\ Refused("r1") /\ Stored(reqSubject["r1"]) = reqTokenData["r1"]
    /\ reqSubject["r2"] = reqSubject["r1"]
    /\ rpc["r2"] = "refreshing" /\ sent["r2"] = sent["r1"] /\ sent["r1"] # None

\* the entry of subject s is in the encrypted shape and decrypts
AlreadyEncrypted(s) ==
    /\ Entry(s) # Absent
    /\ Entry(s).access_token.t = "env" /\ Entry(s).refresh_token.t = "env"
    /\ Stored(s) # Null

\* C40: a lookup that migrates a store file leaves every entry that was
\* already encrypted decryptable to the tokens it held: the record of such
\* a subject has the same access token and refresh token after the migration
\* as before, and so has what the lookup returns for it.
C40_MigrationKeepsEncrypted ==
    [][\A r \in Requests, s \in Subjects :
        LooksUp(r) /\ needsMigration(readData(storeFile)) /\ AlreadyEncrypted(s) =>
            /\ Stored(s)' # Null
            /\ Stored(s)'.accessToken = Stored(s).accessToken
            /\ Stored(s)'.refreshToken = Stored(s).refreshToken
            /\ reqSubject'[r] = s =>
                  /\ reqTokenData'[r] # Null
                  /\ reqTokenData'[r].accessToken = Stored(s).accessToken
                  /\ reqTokenData'[r].refreshToken = Stored(s).refreshToken]_vars

====
